---- MODULE Spec2Model ----
(***************************************************************************)
(* A model of the FYTA MCP server's analytical core: the threshold status  *)
(* evaluator (utils/thresholds.py), the measurement extractor and the tool *)
(* handlers built on them (handlers.py).                                   *)
(*                                                                         *)
(* The server keeps no state of its own between tool calls, so the state   *)
(* of the model is what the upstream API currently returns and the call    *)
(* in flight:                                                              *)
(*   call, result     a library function applied to arguments, and what it *)
(*                    returned;                                            *)
(*   upstream, reply  the plant snapshot and the measurement response the  *)
(*                    FYTA API serves, and the reply of the last handler.   *)
(*                                                                         *)
(* Numbers are integers.  Electrical conductivity (mS/cm) is counted in    *)
(* tenths, so 0.2 is 2 and 1.0 is 10.  Timestamps are ISO strings that the *)
(* code compares as strings; the model uses their rank: 0 is the empty     *)
(* string, 1 < 2 < ... are increasing instants.                            *)
(***************************************************************************)
EXTENDS Integers, Sequences, FiniteSets, TLC

VARIABLES call, result, upstream, reply, stores

vars == <<call, result, upstream, reply, stores>>

(***************************************************************************)
(* Python values.  None is Python's None; Absent marks a key that is not   *)
(* in a dict.  d.get(k) is GetOr(d[k], None), d.get(k, x) is GetOr(d[k],x). *)
(***************************************************************************)
None == -1000
Absent == -1001

GetOr(field, default) == IF field = Absent THEN default ELSE field

Get(field) == GetOr(field, None)

\* Python truthiness of a number, a string rank or None.
Truthy(x) == x # None /\ x # Absent /\ x # 0

\* Python's `a or b`.
PyOr(a, b) == IF Truthy(a) THEN a ELSE b

NoCall == [fn |-> "none"]
NoUpstream == [idle |-> TRUE]
NoReply == [op |-> "none"]

PureIdle == call = NoCall /\ result = NoCall
NoStores == [closed |-> TRUE]

HandlersIdle == upstream = NoUpstream /\ reply = NoReply /\ stores = NoStores

(***************************************************************************)
(* utils/thresholds.py: evaluate_metric_status                             *)
(***************************************************************************)
\* The same function with the acceptable bounds taken as inclusive.
evaluate_metric_status_inclusive(value, min_good, max_good, min_acceptable, max_acceptable) ==
  IF min_good <= value /\ value <= max_good THEN <<2, "optimal">>
  ELSE IF value < min_good
    THEN IF min_acceptable # None /\ value <= min_acceptable
           THEN <<4, "critical_low">> ELSE <<1, "low">>
  ELSE IF value > max_good
    THEN IF max_acceptable # None /\ value >= max_acceptable
           THEN <<4, "critical_high">> ELSE <<3, "high">>
  ELSE <<2, "optimal">>

evaluate_metric_status(value, min_good, max_good, min_acceptable, max_acceptable) ==
  IF min_good <= value /\ value <= max_good THEN <<2, "optimal">>
  ELSE IF value < min_good
    THEN IF min_acceptable # None /\ value < min_acceptable
           THEN <<4, "critical_low">> ELSE <<1, "low">>
  ELSE IF value > max_good
    THEN IF max_acceptable # None /\ value > max_acceptable
           THEN <<4, "critical_high">> ELSE <<3, "high">>
  ELSE <<2, "optimal">>

(***************************************************************************)
(* SpecMetric: evaluate_metric_status applied to every small argument      *)
(* tuple, ordered bands and inverted ones alike.                           *)
(***************************************************************************)
MaxValue == 5

MetricValues == 0..MaxValue
OptionalBound == {None} \cup MetricValues

MetricCalls ==
  [fn : {"evaluate_metric_status"}, value : MetricValues,
   min_good : MetricValues, max_good : MetricValues,
   min_acceptable : OptionalBound, max_acceptable : OptionalBound]

InitMetric == call \in MetricCalls /\ result = NoCall /\ HandlersIdle

EvaluateMetric ==
  /\ call.fn = "evaluate_metric_status"
  /\ result = NoCall
  /\ result' = [fn |-> call.fn,
                ret |-> evaluate_metric_status(call.value, call.min_good, call.max_good,
                                               call.min_acceptable, call.max_acceptable)]
  /\ UNCHANGED <<call, upstream, reply, stores>>

NextMetric == EvaluateMetric

SpecMetric == InitMetric /\ [][NextMetric]_vars

TimestampFields == {"date_utc", "measured_at", "timestamp", "created_at", "date", "time"}
ValueFields == {"temperature", "light", "soil_moisture", "moisture", "soil_fertility", "salinity"}
MeasurementFields == TimestampFields \cup ValueFields

EmptyMeasurement == [f \in MeasurementFields |-> Absent]

\* Python None where a dict was expected.
NoneDict == [is_none |-> TRUE]

(***************************************************************************)
(* handlers.py: get_latest_measurement and get_timestamp_from_measurement  *)
(***************************************************************************)
\* The sort key of get_latest_measurement: m.get("date_utc", "") or
\* m.get("timestamp", "") or m.get("measured_at", "").
LatestSortKey(m) ==
  PyOr(PyOr(GetOr(m["date_utc"], 0), GetOr(m["timestamp"], 0)), GetOr(m["measured_at"], 0))

\* sorted(list, key=...) is stable: an element goes after every element
\* already placed whose key is not greater.
RECURSIVE InsertByKey(_, _)
InsertByKey(sorted, m) ==
  IF sorted = <<>> THEN <<m>>
  ELSE IF LatestSortKey(sorted[Len(sorted)]) <= LatestSortKey(m)
    THEN Append(sorted, m)
    ELSE Append(InsertByKey(SubSeq(sorted, 1, Len(sorted) - 1), m), sorted[Len(sorted)])

RECURSIVE SortedByKey(_)
SortedByKey(list) ==
  IF list = <<>> THEN <<>>
  ELSE InsertByKey(SortedByKey(SubSeq(list, 1, Len(list) - 1)), list[Len(list)])

get_latest_measurement(measurements_list) ==
  IF measurements_list = <<>> THEN NoneDict
  ELSE LET sorted_measurements == SortedByKey(measurements_list)
       IN  sorted_measurements[Len(sorted_measurements)]

TimestampCandidates == <<"date_utc", "measured_at", "timestamp", "created_at", "date", "time">>

RECURSIVE FirstTimestamp(_, _)
FirstTimestamp(measurement, i) ==
  IF i > Len(TimestampCandidates) THEN None
  ELSE IF Truthy(measurement[TimestampCandidates[i]])
    THEN measurement[TimestampCandidates[i]]
    ELSE FirstTimestamp(measurement, i + 1)

get_timestamp_from_measurement(measurement) == FirstTimestamp(measurement, 1)

(***************************************************************************)
(* SpecLatest: get_latest_measurement applied to every short list of       *)
(* records carrying a few timestamp fields (an empty string is rank 0)     *)
(* and a temperature reading that tells equal-stamped records apart.       *)
(***************************************************************************)
MaxTime == 2
MaxStamped == 2
MaxRecords == 2

StampMaps ==
  { s \in [TimestampFields -> {Absent} \cup (0..MaxTime)] :
      Cardinality({f \in TimestampFields : s[f] # Absent}) <= MaxStamped }

StampedRecords ==
  { [f \in MeasurementFields |->
       IF f \in TimestampFields THEN s[f]
       ELSE IF f = "temperature" THEN t ELSE Absent] :
    s \in StampMaps, t \in 1..2 }

RecordLists(universe, n) == UNION { [1..k -> universe] : k \in 0..n }

InitLatest ==
  /\ \E l \in RecordLists(StampedRecords, MaxRecords) :
       call = [fn |-> "get_latest_measurement", measurements_list |-> l]
  /\ result = NoCall
  /\ HandlersIdle

GetLatest ==
  /\ call.fn = "get_latest_measurement"
  /\ result = NoCall
  /\ result' = [fn |-> call.fn, ret |-> get_latest_measurement(call.measurements_list)]
  /\ UNCHANGED <<call, upstream, reply, stores>>

NextLatest == GetLatest

SpecLatest == InitLatest /\ [][NextLatest]_vars

Permuted(list, p) == [i \in 1..Len(list) |-> list[p[i]]]

\* C2: get_latest_measurement returns the same record for every
\* permutation of its input, and that record's resolved timestamp (as
\* get_timestamp_from_measurement resolves it) is the maximum of the input.
C2_LatestOrderInvariant ==
  (result.fn = "get_latest_measurement" /\ call.measurements_list # <<>>) =>
    LET l == call.measurements_list
    IN  /\ \A p \in Permutations(1..Len(l)) :
             get_latest_measurement(Permuted(l, p)) = result.ret
        /\ \A i \in 1..Len(l) :
             get_timestamp_from_measurement(l[i]) <= get_timestamp_from_measurement(result.ret)

\* C8: get_latest_measurement never returns a record in which no timestamp
\* field is recognised.
C8_UnstampedNeverLatest ==
  (result.fn = "get_latest_measurement" /\ result.ret # NoneDict) =>
    get_timestamp_from_measurement(result.ret) # None

(***************************************************************************)
(* Plants and threshold sets.  A plant is the dict the FYTA API returns    *)
(* for one plant (or the copy a handler enriches); a threshold set is one  *)
(* entry of a measurement response.  A missing or empty dict is NoneDict,  *)
(* a missing or empty list is << >>: the code tests both with `if not x`.  *)
(***************************************************************************)
ThresholdFields ==
  {"thresholds_type",
   "temperature_min_good", "temperature_max_good",
   "temperature_min_acceptable", "temperature_max_acceptable",
   "moisture_min_good", "moisture_max_good",
   "moisture_min_acceptable", "moisture_max_acceptable",
   "salinity_min_good", "salinity_max_good",
   "salinity_min_acceptable", "salinity_max_acceptable",
   "light_min_good", "light_max_good",
   "light_min_acceptable", "light_max_acceptable"}

BlankThresholds == [f \in ThresholdFields |-> Absent]

\* The thresholds_type tags "summer" and "winter".
Summer == 1
Winter == 2

StatusFields == {"temperature_status", "moisture_status", "light_status", "salinity_status"}
\* received_data_at is modelled by the minutes elapsed since that instant
\* when the handler runs (Absent when the plant carries no such field).
PlantNumberFields ==
  ValueFields \cup StatusFields \cup {"soil_fertility_anomaly", "received_data_at"}

BlankPlant ==
  [f \in PlantNumberFields |-> Absent] @@
  [thresholds |-> NoneDict, thresholds_list |-> <<>>, sensor |-> NoneDict]

\* A measurement response carrying no threshold data and no records.
BlankResponse == [measurements |-> <<>>, thresholds |-> NoneDict, thresholds_list |-> <<>>]

(***************************************************************************)
(* utils/thresholds.py: get_active_thresholds and evaluate_plant_status    *)
(***************************************************************************)
get_active_thresholds(plant) ==
  IF plant.thresholds # NoneDict THEN plant.thresholds
  ELSE IF plant.thresholds_list # <<>> THEN plant.thresholds_list[1]
  ELSE NoneDict

\* Lines 110-122: the threshold set of the measurement response, its first
\* listed set, or the plant's own.
ResolveThresholds(plant, measurements_data) ==
  LET fromData ==
        IF measurements_data = NoneDict THEN NoneDict
        ELSE IF measurements_data.thresholds # NoneDict THEN measurements_data.thresholds
        ELSE IF measurements_data.thresholds_list # <<>>
          THEN measurements_data.thresholds_list[1]
        ELSE NoneDict
  IN  IF fromData # NoneDict THEN fromData ELSE get_active_thresholds(plant)

\* Lines 131-152: no thresholds, the FYTA status codes are passed through.
FytaStatus(plant) ==
  [use_fyta_status |-> TRUE,
   evaluation_method |-> "fyta",
   temperature |-> [status |-> GetOr(plant["temperature_status"], 2),
                    value |-> Get(plant["temperature"])],
   moisture |-> [status |-> GetOr(plant["moisture_status"], 2),
                 value |-> Get(plant["moisture"])],
   nutrients |-> [status |-> GetOr(plant["salinity_status"], 2),
                  value |-> Get(plant["salinity"])],
   light |-> [status |-> GetOr(plant["light_status"], 2),
              value |-> Get(plant["light"])]]

MetricEntry(st, value, min_good, max_good, fyta_status) ==
  [status |-> st[1], status_name |-> st[2], value |-> value,
   thresholds |-> [min_good |-> min_good, max_good |-> max_good],
   fyta_status |-> Get(fyta_status),
   matches_fyta |-> (st[1] = GetOr(fyta_status, 2))]

\* Lines 154-184.
TemperatureStatus(plant, thresholds) ==
  LET temp == Get(plant["temperature"])
      temp_min_good == GetOr(thresholds["temperature_min_good"], 0)
      temp_max_good == GetOr(thresholds["temperature_max_good"], 100)
  IN  IF temp = None THEN NoneDict
      ELSE MetricEntry(
             evaluate_metric_status(temp, temp_min_good, temp_max_good,
                                    Get(thresholds["temperature_min_acceptable"]),
                                    Get(thresholds["temperature_max_acceptable"])),
             temp, temp_min_good, temp_max_good, plant["temperature_status"])

\* Line 187: plant.get("moisture") or plant.get("soil_moisture").
MoistureReading(plant) == PyOr(Get(plant["moisture"]), Get(plant["soil_moisture"]))

\* Lines 186-213.
MoistureStatus(plant, thresholds) ==
  LET moisture == MoistureReading(plant)
      moisture_min_good == GetOr(thresholds["moisture_min_good"], 0)
      moisture_max_good == GetOr(thresholds["moisture_max_good"], 100)
  IN  IF moisture = None THEN NoneDict
      ELSE MetricEntry(
             evaluate_metric_status(moisture, moisture_min_good, moisture_max_good,
                                    Get(thresholds["moisture_min_acceptable"]),
                                    Get(thresholds["moisture_max_acceptable"])),
             moisture, moisture_min_good, moisture_max_good, plant["moisture_status"])

\* Line 216: plant.get("salinity") or plant.get("soil_fertility").
NutrientsReading(plant) == PyOr(Get(plant["salinity"]), Get(plant["soil_fertility"]))

\* Lines 231-235: the band of the first set tagged summer, or (0, 0).
RECURSIVE SummerBand(_, _)
SummerBand(thresholds_list, i) ==
  IF i > Len(thresholds_list) THEN <<0, 0>>
  ELSE IF thresholds_list[i]["thresholds_type"] = Summer
    THEN <<GetOr(thresholds_list[i]["salinity_min_good"], 2),
           GetOr(thresholds_list[i]["salinity_max_good"], 10)>>
    ELSE SummerBand(thresholds_list, i + 1)
\* Lines 222-241 without the second test of line 239: a summer set's band
\* is used as found.
NutrientBandTrustingSummer(thresholds, measurements_data) ==
  LET min_good == GetOr(thresholds["salinity_min_good"], 0)
      max_good == GetOr(thresholds["salinity_max_good"], 0)
  IN  IF min_good = 0 /\ max_good = 0
        THEN IF measurements_data # NoneDict /\ measurements_data.thresholds_list # <<>>
               THEN SummerBand(measurements_data.thresholds_list, 1)
               ELSE <<2, 10>>
        ELSE <<min_good, max_good>>

\* Lines 222-241: the nutrient band, a (0, 0) band replaced by the summer
\* band of the response and then by 0.2-1.0 mS/cm.
NutrientBand(thresholds, measurements_data) ==
  LET min_good == GetOr(thresholds["salinity_min_good"], 0)
      max_good == GetOr(thresholds["salinity_max_good"], 0)
      summer == IF measurements_data # NoneDict /\ measurements_data.thresholds_list # <<>>
                  THEN SummerBand(measurements_data.thresholds_list, 1)
                  ELSE <<0, 0>>
  IN  IF min_good = 0 /\ max_good = 0
        THEN IF summer[1] = 0 /\ summer[2] = 0 THEN <<2, 10>> ELSE summer
        ELSE <<min_good, max_good>>

\* Lines 254-286: the sensor-anomaly override of the nutrient status.
AnomalyOverride(st, nutrients, nutrients_anomaly, ec_trend) ==
  IF nutrients_anomaly /\ nutrients = 0
    THEN LET is_sensor_error ==
               IF ec_trend # NoneDict /\ ec_trend.analyzed
                 THEN GetOr(ec_trend.initial_ec, 0) > 3 /\ ec_trend.trend # "decreasing"
                 ELSE TRUE
         IN  IF is_sensor_error THEN <<4, "sensor_error">> ELSE st
  ELSE IF nutrients_anomaly /\ nutrients # 0 THEN <<4, "sensor_error">>
  ELSE st

\* Lines 215-302.
NutrientsStatus(plant, thresholds, measurements_data, ec_trend) ==
  LET nutrients == NutrientsReading(plant)
      nutrients_anomaly == Truthy(GetOr(plant["soil_fertility_anomaly"], 0))
      band == NutrientBand(thresholds, measurements_data)
      st == AnomalyOverride(
              evaluate_metric_status(nutrients, band[1], band[2],
                                     Get(thresholds["salinity_min_acceptable"]),
                                     Get(thresholds["salinity_max_acceptable"])),
              nutrients, nutrients_anomaly, ec_trend)
  IN  IF nutrients = None THEN NoneDict
      ELSE MetricEntry(st, nutrients, band[1], band[2], plant["salinity_status"]) @@
           [anomaly |-> nutrients_anomaly,
            adjusted_thresholds |-> (band[1] # GetOr(thresholds["salinity_min_good"], 0))]

\* Lines 309-315 without the clamp: the set's own light_min_acceptable.
LightMinAcceptableUnclamped(thresholds) == Get(thresholds["light_min_acceptable"])

\* Lines 309-315: a missing or positive light_min_acceptable becomes 0.
LightMinAcceptable(thresholds) ==
  LET light_min_acceptable == Get(thresholds["light_min_acceptable"])
  IN  IF light_min_acceptable = None \/ light_min_acceptable > 0
        THEN 0 ELSE light_min_acceptable

\* Lines 304-340.
LightStatus(plant, thresholds) ==
  LET light == Get(plant["light"])
      light_min_good == GetOr(thresholds["light_min_good"], 0)
      light_max_good == GetOr(thresholds["light_max_good"], 1000)
      light_min_acceptable == LightMinAcceptable(thresholds)
  IN  IF light = None THEN NoneDict
      ELSE LET e == MetricEntry(
                      evaluate_metric_status(light, light_min_good, light_max_good,
                                             light_min_acceptable,
                                             Get(thresholds["light_max_acceptable"])),
                      light, light_min_good, light_max_good, plant["light_status"])
           IN  [e EXCEPT !.thresholds = e.thresholds @@ [min_acceptable |-> light_min_acceptable]]

evaluate_plant_status(plant, measurements_data, ec_trend) ==
  LET thresholds == ResolveThresholds(plant, measurements_data)
  IN  IF thresholds = NoneDict THEN FytaStatus(plant)
      ELSE [use_fyta_status |-> FALSE,
            evaluation_method |-> "smart",
            temperature |-> TemperatureStatus(plant, thresholds),
            moisture |-> MoistureStatus(plant, thresholds),
            nutrients |-> NutrientsStatus(plant, thresholds, measurements_data, ec_trend),
            light |-> LightStatus(plant, thresholds)]
(***************************************************************************)
(* SpecEvaluate: evaluate_plant_status applied to plants, measurement      *)
(* responses and EC trends.  The four metric blocks of the function do not *)
(* read each other's fields, so the arguments are drawn one block at a     *)
(* time: a plant carrying the fields of one block, against every small     *)
(* threshold set for that block.  Temperature, moisture and light readings *)
(* are 0..MaxValue (light is an intensity, never negative); EC readings    *)
(* are tenths of mS/cm.                                                    *)
(***************************************************************************)
MaxSets == 2

Readings == {Absent} \cup MetricValues
ECReadings == {Absent, 0, 5, 12}
StatusCodes == {Absent, 1, 2, 3, 4}

OuterBounds == {Absent, 0, MaxValue}

EvaluateCall(plant, measurements_data, ec_trend) ==
  [fn |-> "evaluate_plant_status", plant |-> plant,
   measurements_data |-> measurements_data, ec_trend |-> ec_trend]

ResponseWith(thresholds) == [BlankResponse EXCEPT !.thresholds = thresholds]

TemperatureSets ==
  { ("temperature_min_good" :> a @@ "temperature_max_good" :> b @@
     "temperature_min_acceptable" :> c @@ "temperature_max_acceptable" :> d) @@ BlankThresholds :
    a \in 1..MaxValue, b \in 1..MaxValue, c \in OuterBounds, d \in OuterBounds }

MoistureSets ==
  { ("moisture_min_good" :> a @@ "moisture_max_good" :> b @@
     "moisture_min_acceptable" :> c @@ "moisture_max_acceptable" :> d) @@ BlankThresholds :
    a \in 1..MaxValue, b \in 1..MaxValue, c \in OuterBounds, d \in OuterBounds }

LightSets ==
  { ("light_min_good" :> a @@ "light_max_good" :> b @@
     "light_min_acceptable" :> c @@ "light_max_acceptable" :> d) @@ BlankThresholds :
    a \in Readings, b \in {Absent, 3, MaxValue}, c \in Readings, d \in {Absent, MaxValue} }

\* Nutrient bands in tenths of mS/cm: the degenerate (0, 0), a missing
\* band, a band open at 0 and an ordinary one.
NutrientBands == {<<0, 0>>, <<Absent, Absent>>, <<0, 8>>, <<3, 9>>}

NutrientSets ==
  { ("thresholds_type" :> tag @@
     "salinity_min_good" :> band[1] @@ "salinity_max_good" :> band[2] @@
     "salinity_min_acceptable" :> acc[1] @@ "salinity_max_acceptable" :> acc[2]) @@ BlankThresholds :
    tag \in {Absent, Summer, Winter}, band \in NutrientBands,
    acc \in {<<Absent, Absent>>, <<1, 11>>} }

\* The sets a response lists beside the active one.
SeasonSets ==
  { t \in NutrientSets : t["thresholds_type"] # Absent /\ t["salinity_min_acceptable"] = Absent }

SetLists(n) == UNION { [1..k -> SeasonSets] : k \in 0..n }

ECTrends ==
  {NoneDict, [analyzed |-> FALSE]} \cup
  [analyzed : {TRUE}, trend : {"stable", "increasing", "decreasing"}, initial_ec : {0, 3, 8}]

InitTemperature ==
  \E v \in Readings, st \in StatusCodes, t \in TemperatureSets :
    call = EvaluateCall(("temperature" :> v @@ "temperature_status" :> st) @@ BlankPlant,
                        ResponseWith(t), NoneDict)

InitMoisture ==
  \E m \in Readings, sm \in Readings, t \in MoistureSets :
    call = EvaluateCall(("moisture" :> m @@ "soil_moisture" :> sm) @@ BlankPlant,
                        ResponseWith(t), NoneDict)

InitLight ==
  \E v \in Readings, t \in LightSets :
    call = EvaluateCall(("light" :> v) @@ BlankPlant, ResponseWith(t), NoneDict)

\* The nutrient band: the active set comes from the response's thresholds
\* key, from the head of its thresholds_list, or from the plant, and the
\* response lists up to MaxSets season sets.
InitNutrientBand ==
  \E sf \in ECReadings, active \in NutrientSets, others \in SetLists(MaxSets) :
    \/ call = EvaluateCall(("soil_fertility" :> sf) @@ BlankPlant,
                           [BlankResponse EXCEPT !.thresholds = active,
                                                 !.thresholds_list = others],
                           NoneDict)
    \/ call = EvaluateCall(("soil_fertility" :> sf) @@ BlankPlant,
                           [BlankResponse EXCEPT !.thresholds_list = <<active>> \o others],
                           NoneDict)
    \/ /\ others = <<>>
       /\ call = EvaluateCall([(("soil_fertility" :> sf) @@ BlankPlant)
                                 EXCEPT !.thresholds = active],
                              NoneDict, NoneDict)
    \/ /\ Len(others) <= 1
       /\ call = EvaluateCall([(("soil_fertility" :> sf) @@ BlankPlant)
                                 EXCEPT !.thresholds_list = <<active>> \o others],
                              BlankResponse, NoneDict)

InitAnomaly ==
  \E sal \in ECReadings, sf \in ECReadings, flag \in {Absent, 0, 1},
     t \in {x \in NutrientSets : x["thresholds_type"] = Absent}, trend \in ECTrends :
    call = EvaluateCall(("salinity" :> sal @@ "soil_fertility" :> sf @@
                         "soil_fertility_anomaly" :> flag) @@ BlankPlant,
                        ResponseWith(t), trend)

\* No threshold set anywhere: the response failed or carries none.
InitNoThresholds ==
  \E codes \in [StatusFields -> StatusCodes], v \in {Absent, 3}, resp \in {NoneDict, BlankResponse} :
    call = EvaluateCall((("temperature" :> v @@ "salinity" :> v) @@ codes) @@ BlankPlant,
                        resp, NoneDict)

InitEvaluate ==
  /\ \/ InitTemperature
     \/ InitMoisture
     \/ InitLight
     \/ InitNutrientBand
     \/ InitAnomaly
     \/ InitNoThresholds
  /\ result = NoCall
  /\ HandlersIdle

EvaluatePlant ==
  /\ call.fn = "evaluate_plant_status"
  /\ result = NoCall
  /\ result' = [fn |-> call.fn,
                ret |-> evaluate_plant_status(call.plant, call.measurements_data, call.ec_trend)]
  /\ UNCHANGED <<call, upstream, reply, stores>>

NextEvaluate == EvaluatePlant

SpecEvaluate == InitEvaluate /\ [][NextEvaluate]_vars

EvaluatedWithThresholds ==
  result.fn = "evaluate_plant_status" /\ ~result.ret.use_fyta_status

\* The salinity band of the active threshold set is the degenerate (0, 0).
ActiveBandDegenerate ==
  LET t == ResolveThresholds(call.plant, call.measurements_data)
  IN  GetOr(t["salinity_min_good"], 0) = 0 /\ GetOr(t["salinity_max_good"], 0) = 0

ResponseSets ==
  IF call.measurements_data = NoneDict THEN <<>> ELSE call.measurements_data.thresholds_list

\* C3: when the active set's nutrient band is (0, 0), the band used to
\* evaluate nutrients is never (0, 0): it is the band of the response's
\* first set tagged summer when that band is itself usable, otherwise the
\* fallback 0.2-1.0 mS/cm; with no summer set a reading of 0.5 is optimal.
C3_DegenerateBandSubstituted ==
  (EvaluatedWithThresholds /\ ActiveBandDegenerate /\ result.ret.nutrients # NoneDict) =>
    LET n == result.ret.nutrients
        used == <<n.thresholds.min_good, n.thresholds.max_good>>
        summers == {i \in DOMAIN ResponseSets : ResponseSets[i]["thresholds_type"] = Summer}
        first == CHOOSE i \in summers : \A j \in summers : i <= j
        band == <<GetOr(ResponseSets[first]["salinity_min_good"], 2),
                  GetOr(ResponseSets[first]["salinity_max_good"], 10)>>
    IN  /\ used # <<0, 0>>
        /\ IF summers # {} /\ band # <<0, 0>> THEN used = band ELSE used = <<2, 10>>
        /\ (summers = {} /\ n.value = 5) => (n.status = 2 /\ n.status_name = "optimal")

\* C3 as amended: the same, the reading of 0.5 being optimal when FYTA
\* flags no anomaly on it (a flagged non-zero reading is sensor_error,
\* status 4, whatever the band).
C3_DegenerateBandSubstitutedUnflagged ==
  (EvaluatedWithThresholds /\ ActiveBandDegenerate /\ result.ret.nutrients # NoneDict) =>
    LET n == result.ret.nutrients
        used == <<n.thresholds.min_good, n.thresholds.max_good>>
        summers == {i \in DOMAIN ResponseSets : ResponseSets[i]["thresholds_type"] = Summer}
        first == CHOOSE i \in summers : \A j \in summers : i <= j
        band == <<GetOr(ResponseSets[first]["salinity_min_good"], 2),
                  GetOr(ResponseSets[first]["salinity_max_good"], 10)>>
    IN  /\ used # <<0, 0>>
        /\ IF summers # {} /\ band # <<0, 0>> THEN used = band ELSE used = <<2, 10>>
        /\ (summers = {} /\ n.value = 5) =>
             IF n.anomaly THEN n.status = 4 /\ n.status_name = "sensor_error"
             ELSE n.status = 2 /\ n.status_name = "optimal"

\* A degenerate active band, no summer set in the response, and a reading
\* of 0.5 mS/cm evaluated as optimal against the fallback band.
C3_Witness ==
  /\ EvaluatedWithThresholds
  /\ ActiveBandDegenerate
  /\ ResolveThresholds(call.plant, call.measurements_data)["salinity_min_good"] = 0
  /\ \A i \in DOMAIN ResponseSets : ResponseSets[i]["thresholds_type"] # Summer
  /\ result.ret.nutrients # NoneDict
  /\ result.ret.nutrients.value = 5
  /\ ~result.ret.nutrients.anomaly
  /\ result.ret.nutrients.status = 2
  /\ result.ret.nutrients.thresholds = [min_good |-> 2, max_good |-> 10]

\* The plant's EC reading is 0, in the soil_fertility field, the salinity
\* field or both, and FYTA flags an anomaly.
ZeroECWithAnomaly ==
  LET p == call.plant
  IN  /\ p["soil_fertility_anomaly"] = 1
      /\ \/ p["salinity"] = 0 /\ p["soil_fertility"] \in {Absent, 0}
         \/ p["soil_fertility"] = 0 /\ p["salinity"] \in {Absent, 0}

\* C4: an EC reading of 0 with the anomaly flag set is status 4, name
\* sensor_error, when no analysed trend is supplied or the trend started
\* above 0.3 and is not decreasing; with a decreasing trend the threshold
\* status is kept and is not sensor_error.
C4_ZeroECAnomaly ==
  (EvaluatedWithThresholds /\ ZeroECWithAnomaly) =>
    LET n == result.ret.nutrients
        tr == call.ec_trend
        analysed == tr # NoneDict /\ tr.analyzed
    IN  /\ (~analysed \/ (tr.initial_ec > 3 /\ tr.trend # "decreasing")) =>
             (n # NoneDict /\ n.status = 4 /\ n.status_name = "sensor_error")
        /\ (analysed /\ tr.trend = "decreasing") =>
             (n # NoneDict /\ n.status_name # "sensor_error" /\ n.status \in {1, 2, 3, 4})

\* C5: a light reading below light_min_good is status 1 (low), never 4,
\* whether light_min_acceptable is absent, zero or positive.
C5_LowLightNeverCritical ==
  (EvaluatedWithThresholds /\ result.ret.light # NoneDict) =>
    LET t == ResolveThresholds(call.plant, call.measurements_data)
        l == result.ret.light
    IN  (l.value < GetOr(t["light_min_good"], 0)
         /\ (t["light_min_acceptable"] = Absent \/ t["light_min_acceptable"] >= 0)) =>
          (l.status = 1 /\ l.status_name = "low")

\* A reading under both light_min_good and a positive light_min_acceptable
\* was evaluated as low.
C5_Witness ==
  /\ EvaluatedWithThresholds
  /\ result.ret.light # NoneDict
  /\ ResolveThresholds(call.plant, call.measurements_data)["light_min_acceptable"] > result.ret.light.value
  /\ ResolveThresholds(call.plant, call.measurements_data)["light_min_good"] > result.ret.light.value
  /\ result.ret.light.status = 1

\* C7: with soil_moisture and moisture both present and different the
\* moisture evaluation uses soil_moisture; with soil_fertility and salinity
\* both present and different the nutrient evaluation uses soil_fertility.
C7_CurrentFieldsPreferred ==
  EvaluatedWithThresholds =>
    LET p == call.plant
    IN  /\ (p["soil_moisture"] # Absent /\ p["moisture"] # Absent
            /\ p["soil_moisture"] # p["moisture"]) =>
              (result.ret.moisture # NoneDict
               /\ result.ret.moisture.value = p["soil_moisture"])
        /\ (p["soil_fertility"] # Absent /\ p["salinity"] # Absent
            /\ p["soil_fertility"] # p["salinity"]) =>
              (result.ret.nutrients # NoneDict
               /\ result.ret.nutrients.value = p["soil_fertility"])

(***************************************************************************)
(* handlers.py: the helpers the handlers share                             *)
(***************************************************************************)
\* The measurement response of the model is None (the fetch failed) or a
\* dict holding the record list under "measurements", the first key that
\* extract_measurements_from_response tries.
extract_measurements_from_response(measurements_data) ==
  IF measurements_data = NoneDict THEN <<>> ELSE measurements_data.measurements

\* Lines 99-106 (and 207-214, 292-299, 1542-1549): the copy of the plant
\* with the measurement values popped.
PlantWithoutValues(plant) ==
  [f \in DOMAIN plant |-> IF f \in ValueFields THEN Absent ELSE plant[f]]

\* Lines 112-115: the four values copied from a measurement record.
WithValuesOf(enriched, latest) ==
  [enriched EXCEPT !["temperature"] = Get(latest["temperature"]),
                   !["light"] = Get(latest["light"]),
                   !["soil_moisture"] = PyOr(Get(latest["soil_moisture"]), Get(latest["moisture"])),
                   !["soil_fertility"] = PyOr(Get(latest["soil_fertility"]), Get(latest["salinity"]))]

LastOf(measurements_list) == measurements_list[Len(measurements_list)]

\* Lines 97-115, 291-309, 1541-1559: the enriched plant of get_all_plants,
\* get_plants_needing_attention and get_plant_events.
EnrichedFromLatest(plant, measurements_week) ==
  LET measurements_list == extract_measurements_from_response(measurements_week)
  IN  IF measurements_list = <<>> THEN PlantWithoutValues(plant)
      ELSE WithValuesOf(PlantWithoutValues(plant), get_latest_measurement(measurements_list))

\* Lines 205-223: the enriched plant of get_plant_details, which takes
\* measurements_list[-1].
EnrichedFromLast(plant, measurements_week) ==
  LET measurements_list == extract_measurements_from_response(measurements_week)
  IN  IF measurements_list = <<>> THEN PlantWithoutValues(plant)
      ELSE WithValuesOf(PlantWithoutValues(plant), LastOf(measurements_list))

\* Lines 121-131: the status code of one metric, the FYTA code when the
\* metric was not evaluated.
StatusCodeOr(entry, fyta_status) ==
  IF entry = NoneDict THEN GetOr(fyta_status, 2) ELSE entry.status

SmartCodes(plant, smart_status) ==
  [temperature |-> StatusCodeOr(smart_status.temperature, plant["temperature_status"]),
   light |-> StatusCodeOr(smart_status.light, plant["light_status"]),
   moisture |-> StatusCodeOr(smart_status.moisture, plant["moisture_status"]),
   nutrients |-> StatusCodeOr(smart_status.nutrients, plant["salinity_status"])]

Metrics == {"temperature", "light", "moisture", "nutrients"}

(***************************************************************************)
(* handlers.py: handle_get_all_plants, for one plant of the list           *)
(***************************************************************************)
\* Lines 144-155.
OverallStatus(codes) ==
  IF \A m \in Metrics : codes[m] = 2 THEN "good"
  ELSE IF \E m \in Metrics : codes[m] = 1 \/ codes[m] = 3
    THEN IF codes.moisture = 1 \/ codes.temperature = 3 THEN "bad" ELSE "ok"
  ELSE "ok"

handle_get_all_plants(plant, measurements_week) ==
  LET enriched_plant_data == EnrichedFromLatest(plant, measurements_week)
      smart_status == evaluate_plant_status(enriched_plant_data, measurements_week, NoneDict)
      codes == SmartCodes(plant, smart_status)
  IN  [kind |-> "plants", sensorStatus |-> codes, overallStatus |-> OverallStatus(codes)]

(***************************************************************************)
(* handlers.py: handle_get_plant_details                                   *)
(***************************************************************************)
\* Line 229: status_map.get(code, "Unknown").
StatusMapName(code) ==
  IF code = 1 THEN "Low" ELSE IF code = 2 THEN "Optimal"
  ELSE IF code = 3 THEN "High" ELSE IF code = 4 THEN "Critical" ELSE "Unknown"

handle_get_plant_details(plant, measurements_week) ==
  IF plant = NoneDict THEN [kind |-> "not_found"]
  ELSE LET enriched_plant_data == EnrichedFromLast(plant, measurements_week)
           smart_status == evaluate_plant_status(enriched_plant_data, measurements_week, NoneDict)
           codes == SmartCodes(plant, smart_status)
       IN  [kind |-> "details", sensorStatus |-> [m \in Metrics |-> StatusMapName(codes[m])]]

(***************************************************************************)
(* handlers.py: handle_get_plants_needing_attention, for one plant         *)
(***************************************************************************)
\* Lines 317-347: the issue of one metric, if any.
AttentionIssue(entry, label) ==
  IF entry = NoneDict THEN <<>>
  ELSE IF entry.status = 1 THEN <<label \o " too low">>
  ELSE IF entry.status = 3 THEN <<label \o " too high">>
  ELSE <<>>

\* measurements_week is None when the fetch raised: the plant is skipped.
handle_get_plants_needing_attention(plant, measurements_week) ==
  IF measurements_week = NoneDict THEN [kind |-> "attention", listed |-> FALSE, issues |-> <<>>]
  ELSE LET enriched_plant_data == EnrichedFromLatest(plant, measurements_week)
           smart_status == evaluate_plant_status(enriched_plant_data, measurements_week, NoneDict)
           issues == AttentionIssue(smart_status.temperature, "Temperature")
                     \o AttentionIssue(smart_status.light, "Light")
                     \o AttentionIssue(smart_status.moisture, "Moisture")
                     \o AttentionIssue(smart_status.nutrients, "Nutrients")
       IN  [kind |-> "attention", listed |-> (issues # <<>>), issues |-> issues]

(***************************************************************************)
(* utils/sensor_info.py: get_sensor_info and check_light_capability        *)
(***************************************************************************)
\* plant["sensor"] is NoneDict (the key is missing) or a record has_sensor,
\* sensor_type_id, battery_level.  SENSOR_TYPES: only type 2 measures
\* light, an unknown type is read as type 1.
get_sensor_info(plant) ==
  IF plant.sensor = NoneDict \/ ~Truthy(Get(plant.sensor.has_sensor))
    THEN [has_sensor |-> FALSE, has_light_sensor |-> FALSE]
    ELSE [has_sensor |-> TRUE,
          has_light_sensor |-> (GetOr(plant.sensor.sensor_type_id, 1) = 2)]

\* The "capable" entry of check_light_capability.
check_light_capability(plant) ==
  get_sensor_info(plant).has_sensor /\ get_sensor_info(plant).has_light_sensor

(***************************************************************************)
(* handlers.py: calculate_severity.  deviation_percent > p is compared     *)
(* without dividing: deviation * 100 > p * bound.                          *)
(***************************************************************************)
DeviationOver(deviation, bound, percent) ==
  IF bound > 0 THEN deviation * 100 > percent * bound ELSE 100 > percent

calculate_severity(current_value, status_code, thresholds, metric_name) ==
  LET min_good == thresholds.min_good
      max_good == thresholds.max_good
  IN  IF status_code = 2 THEN "info"
      ELSE IF status_code = 1
        THEN IF metric_name = "moisture"
               THEN IF current_value < 15 THEN "critical"
                    ELSE IF DeviationOver(min_good - current_value, min_good, 30) THEN "high"
                    ELSE "moderate"
               ELSE IF DeviationOver(min_good - current_value, min_good, 50) THEN "high"
                    ELSE IF DeviationOver(min_good - current_value, min_good, 25) THEN "moderate"
                    ELSE "low"
      ELSE IF status_code = 3
        THEN IF metric_name = "moisture"
               THEN IF current_value > 90 THEN "critical"
                    ELSE IF DeviationOver(current_value - max_good, max_good, 20) THEN "high"
                    ELSE "moderate"
             ELSE IF metric_name = "temperature"
               THEN IF DeviationOver(current_value - max_good, max_good, 20) THEN "high"
                    ELSE IF DeviationOver(current_value - max_good, max_good, 10) THEN "moderate"
                    ELSE "low"
             ELSE IF DeviationOver(current_value - max_good, max_good, 50) THEN "high"
                  ELSE IF DeviationOver(current_value - max_good, max_good, 20) THEN "moderate"
                  ELSE "low"
      ELSE "moderate"

(***************************************************************************)
(* handlers.py: handle_diagnose_plant (status evaluation, issues, health)  *)
(***************************************************************************)
\* Lines 930-943 with the plant's own measurement values kept, as in
\* plant.copy().
DiagnoseSnapshotCopy(plant) ==
  [f \in DOMAIN plant |->
     IF f \in ValueFields \/ f \in {"thresholds_list", "sensor"} THEN plant[f]
     ELSE IF f \in StatusFields THEN Get(plant[f])
     ELSE IF f = "thresholds" THEN NoneDict
     ELSE Absent]

\* Lines 930-943: a clean dict holding the plant's status codes, sensor and
\* thresholds_list, and none of its measurement values.
DiagnoseSnapshot(plant) ==
  [f \in DOMAIN plant |->
     IF f \in {"thresholds_list", "sensor"} THEN plant[f]
     ELSE IF f \in StatusFields THEN Get(plant[f])
     ELSE IF f = "thresholds" THEN NoneDict
     ELSE Absent]

\* Lines 945-975: the values of the latest measurement, each added only if
\* it is not None; moisture and nutrients are set under both names.
DiagnoseEnriched(plant, measurements_week) ==
  LET base == DiagnoseSnapshot(plant)
      measurements_list == extract_measurements_from_response(measurements_week)
      latest == get_latest_measurement(measurements_list)
      moisture_val == PyOr(Get(latest["soil_moisture"]), Get(latest["moisture"]))
      nutrients_val == PyOr(Get(latest["soil_fertility"]), Get(latest["salinity"]))
      keep(old, new) == IF new # None THEN new ELSE old
  IN  IF measurements_list = <<>> THEN base
      ELSE [base EXCEPT !["temperature"] = keep(@, Get(latest["temperature"])),
                        !["light"] = keep(@, Get(latest["light"])),
                        !["soil_moisture"] = keep(@, moisture_val),
                        !["moisture"] = keep(@, moisture_val),
                        !["soil_fertility"] = keep(@, nutrients_val),
                        !["salinity"] = keep(@, nutrients_val)]

\* Lines 986-1005: the FYTA codes of the plant when no threshold set was
\* found, else the evaluated codes, 2 for a metric left unevaluated.
StatusDetails(plant, smart_status) ==
  IF smart_status.use_fyta_status
    THEN [temperature |-> GetOr(plant["temperature_status"], 2),
          light |-> GetOr(plant["light_status"], 2),
          moisture |-> GetOr(plant["moisture_status"], 2),
          nutrients |-> GetOr(plant["salinity_status"], 2)]
    ELSE [m \in Metrics |-> IF smart_status[m] = NoneDict THEN 2 ELSE smart_status[m].status]

\* Line 1012: status_names = {1: "low", 2: "optimal", 3: "high"}.
StatusName(code) == IF code = 1 THEN "low" ELSE IF code = 2 THEN "optimal" ELSE "high"

\* A metric's issue block raises: in the FYTA branch temp_data, light_data,
\* moisture_data and nutrients_data are never bound (lines 995-998 are in
\* the else branch), and status_names has no key 4.
IssueRaises(code, use_fyta_status) ==
  code # 2 /\ (use_fyta_status \/ code \notin {1, 2, 3})

\* Lines 1024, 1046, 1077, 1098: the severity when no value is at hand.
DefaultSeverity(metric, code) ==
  IF metric = "temperature" THEN (IF code = 3 THEN "critical" ELSE "moderate")
  ELSE IF metric = "light" THEN (IF code = 1 THEN "high" ELSE "moderate")
  ELSE IF metric = "moisture" THEN (IF code = 1 THEN "critical" ELSE "high")
  ELSE (IF code = 1 THEN "moderate" ELSE "high")

\* Lines 1015-1108: the issue of one metric whose code is not 2.
IssueOf(metric, code, entry) ==
  IF code = 2 THEN <<>>
  ELSE <<[parameter |-> metric, status |-> StatusName(code),
          severity |-> IF entry # NoneDict /\ entry.value # None
                         THEN calculate_severity(entry.value, code, entry.thresholds, metric)
                         ELSE DefaultSeverity(metric, code)]>>

\* Lines 1057-1066.
LightUnavailable == <<[parameter |-> "light", status |-> "unavailable", severity |-> "info"]>>

\* The fold with a single high issue already rated poor.
HealthOfStrict(issues) ==
  LET count(sev) == Cardinality({i \in DOMAIN issues : issues[i].severity = sev})
  IN  IF count("critical") > 0 THEN "critical"
      ELSE IF count("high") >= 1 THEN "poor"
      ELSE IF count("moderate") >= 2 THEN "fair"
      ELSE IF count("moderate") = 1 THEN "good"
      ELSE "excellent"

\* Lines 1110-1124.
HealthOf(issues) ==
  LET count(sev) == Cardinality({i \in DOMAIN issues : issues[i].severity = sev})
  IN  IF count("critical") > 0 THEN "critical"
      ELSE IF count("high") >= 2 THEN "poor"
      ELSE IF count("high") = 1 \/ count("moderate") >= 2 THEN "fair"
      ELSE IF count("moderate") = 1 THEN "good"
      ELSE "excellent"

\* The handler from the enriched plant on (lines 979-1417).
DiagnoseFrom(plant, enriched_plant_data, measurements_week) ==
  LET smart_status == evaluate_plant_status(enriched_plant_data, measurements_week, NoneDict)
      status_details == StatusDetails(plant, smart_status)
      fyta == smart_status.use_fyta_status
      capable == check_light_capability(plant)
      raises == \E m \in Metrics :
                  (m # "light" \/ capable) /\ IssueRaises(status_details[m], fyta)
      issues == IssueOf("temperature", status_details.temperature, smart_status.temperature)
                \o (IF capable
                      THEN IssueOf("light", status_details.light, smart_status.light)
                      ELSE LightUnavailable)
                \o IssueOf("moisture", status_details.moisture, smart_status.moisture)
                \o IssueOf("nutrients", status_details.nutrients, smart_status.nutrients)
  IN  IF raises THEN [kind |-> "error"]
      ELSE [kind |-> "report",
            health |-> HealthOf(issues),
            issueDetails |-> issues,
            sensorStatus |-> status_details,
            method |-> smart_status.evaluation_method,
            smart_status |-> IF fyta THEN NoneDict ELSE smart_status]

handle_diagnose_plant(plant, measurements_week) ==
  IF plant = NoneDict THEN [kind |-> "not_found"]
  ELSE DiagnoseFrom(plant, DiagnoseEnriched(plant, measurements_week), measurements_week)

\* Lines 1301-1408: the fertilization and the watering sub-analysis, which
\* run once the result is built.  Each runs when the latest record has its
\* value (current_ec, current_moisture) and a fault is any exception it
\* raises: the context store, the care-action store or the analysis.
FertilizationAttempted(plant, measurements_week) ==
  LET measurements_list == extract_measurements_from_response(measurements_week)
      latest == get_latest_measurement(measurements_list)
  IN  /\ handle_diagnose_plant(plant, measurements_week).kind = "report"
      /\ measurements_list # <<>>
      /\ PyOr(Get(latest["soil_fertility"]), Get(latest["salinity"])) # None

WateringAttempted(plant, measurements_week) ==
  LET measurements_list == extract_measurements_from_response(measurements_week)
      latest_measurement == get_latest_measurement(measurements_list)
  IN  /\ handle_diagnose_plant(plant, measurements_week).kind = "report"
      /\ measurements_list # <<>>
      /\ Get(latest_measurement["soil_moisture"]) # None

\* The faults that can occur: only a sub-analysis that runs can raise.
SubAnalysisFaults(plant, measurements_week) ==
  [fertilization : IF FertilizationAttempted(plant, measurements_week) THEN BOOLEAN ELSE {FALSE},
   watering : IF WateringAttempted(plant, measurements_week) THEN BOOLEAN ELSE {FALSE}]

\* The handler with a sub-analysis exception reaching the outer handler
\* of lines 1410-1417.
DiagnoseWithUnguardedSubAnalyses(plant, measurements_week, faults) ==
  IF faults.fertilization \/ faults.watering
    THEN [out |-> [kind |-> "error"], sections |-> {}]
    ELSE [out |-> handle_diagnose_plant(plant, measurements_week),
          sections |->
            (IF FertilizationAttempted(plant, measurements_week) THEN {"fertilization"} ELSE {})
            \cup (IF WateringAttempted(plant, measurements_week) THEN {"watering"} ELSE {})]

\* The whole answer: the result built at lines 1270-1298 and the keys the
\* sub-analyses add to it; each sub-analysis has its own try/except, which
\* logs the exception and adds nothing.
DiagnoseWithSubAnalyses(plant, measurements_week, faults) ==
  [out |-> handle_diagnose_plant(plant, measurements_week),
   sections |->
     (IF FertilizationAttempted(plant, measurements_week) /\ ~faults.fertilization
        THEN {"fertilization"} ELSE {})
     \cup (IF WateringAttempted(plant, measurements_week) /\ ~faults.watering
             THEN {"watering"} ELSE {})]

(***************************************************************************)
(* utils/events.py: the detectors                                          *)
(***************************************************************************)
Event(event_type, severity, priority) ==
  [event_type |-> event_type, severity |-> severity, priority |-> priority]

detect_sensor_silence(current_plant, silence_threshold_minutes) ==
  LET minutes_silent == current_plant["received_data_at"]
  IN  IF minutes_silent = Absent THEN <<>>
      ELSE IF minutes_silent > silence_threshold_minutes
        THEN IF minutes_silent > 180 THEN <<Event("sensor_silence", "critical", "high")>>
             ELSE IF minutes_silent > 120 THEN <<Event("sensor_silence", "warning", "medium")>>
             ELSE <<Event("sensor_silence", "info", "low")>>
      ELSE <<>>

detect_battery_low(current_plant, low_threshold) ==
  LET battery_level ==
        IF current_plant.sensor = NoneDict THEN None
        ELSE Get(current_plant.sensor.battery_level)
  IN  IF battery_level # None /\ battery_level < low_threshold
        THEN IF battery_level < 10 THEN <<Event("battery_low", "critical", "high")>>
             ELSE IF battery_level < 15 THEN <<Event("battery_low", "warning", "high")>>
             ELSE <<Event("battery_low", "warning", "medium")>>
      ELSE <<>>

\* Lines 18-81.  previous_state is NoneDict for None, else a snapshot (a
\* plant dict, which is never empty: it carries its id).
status_names(code) ==
  IF code = 1 THEN "Low" ELSE IF code = 2 THEN "Optimal" ELSE IF code = 3 THEN "High"
  ELSE "Unknown"

\* Lines 34-39: status_mapping, in the order of the loop.
status_mapping ==
  << <<"temperature_status", "temperature">>, <<"light_status", "light">>,
     <<"moisture_status", "moisture">>, <<"salinity_status", "nutrients">> >>

\* Lines 44-79: the body of the loop for one metric.
StatusChange(current_plant, previous_state, status_key, metric_name) ==
  LET current_status == GetOr(current_plant[status_key], 2)
      previous_status == GetOr(previous_state[status_key], 2)
      from_status == status_names(previous_status)
      to_status == status_names(current_status)
      severity ==
        IF to_status = "Optimal" THEN "info"
        ELSE IF \/ from_status = "Optimal" /\ to_status \in {"Low", "High"}
                \/ from_status \in {"Low", "High"} /\ to_status = "Optimal"
          THEN "warning"
        ELSE IF to_status \in {"Low", "High"} THEN "critical" ELSE "warning"
      priority ==
        IF to_status = "Optimal" THEN "low"
        ELSE IF \/ from_status = "Optimal" /\ to_status \in {"Low", "High"}
                \/ from_status \in {"Low", "High"} /\ to_status = "Optimal"
          THEN "medium"
        ELSE IF severity = "critical" THEN "high" ELSE "medium"
  IN  IF current_status # previous_status
        THEN <<[event_type |-> "status_change", severity |-> severity, priority |-> priority,
                metric |-> metric_name, from_status |-> from_status,
                to_status |-> to_status, actionable |-> to_status # "Optimal"]>>
      ELSE <<>>

RECURSIVE StatusChangesFrom(_, _, _)
StatusChangesFrom(current_plant, previous_state, i) ==
  IF i > Len(status_mapping) THEN <<>>
  ELSE StatusChange(current_plant, previous_state, status_mapping[i][1], status_mapping[i][2])
       \o StatusChangesFrom(current_plant, previous_state, i + 1)

detect_status_changes(current_plant, previous_state) ==
  IF previous_state = NoneDict THEN <<>>
  ELSE StatusChangesFrom(current_plant, previous_state, 1)

\* Level-triggered variant: an event whenever the sensor is disconnected.
detect_wifi_disconnect_level(current_plant, previous_state) ==
  IF previous_state = NoneDict THEN <<>>
  ELSE IF GetOr(current_plant["wifi_status"], 1) = 0
    THEN <<Event("wifi_disconnected", "warning", "medium")>>
  ELSE <<>>

\* Lines 186-221.
detect_wifi_disconnect(current_plant, previous_state) ==
  IF previous_state = NoneDict THEN <<>>
  ELSE IF GetOr(previous_state["wifi_status"], 1) = 1
          /\ GetOr(current_plant["wifi_status"], 1) = 0
    THEN <<Event("wifi_disconnected", "warning", "medium")>>
  ELSE <<>>

\* Lines 224-260.  is_new is `previous_state and <comparison>`: None when
\* previous_state is None, else the comparison's True or False.
detect_critical_moisture(current_plant, previous_state) ==
  IF GetOr(current_plant["moisture_status"], 2) = 1
    THEN <<[event_type |-> "critical_moisture", severity |-> "critical",
            priority |-> "immediate",
            is_new_critical |->
              IF previous_state = NoneDict THEN "None"
              ELSE IF GetOr(previous_state["moisture_status"], 2) # 1 THEN "True"
              ELSE "False"]>>
    ELSE <<>>

detect_temperature_extreme(current_plant) ==
  IF GetOr(current_plant["temperature_status"], 2) = 3
    THEN <<Event("temperature_extreme", "critical", "high")>>
    ELSE <<>>

\* Lines 298-355, config = None.  With previous_state = None the
\* status-change and wifi detectors are skipped.
detect_all_events(current_plant, previous_state) ==
  (IF previous_state # NoneDict THEN detect_status_changes(current_plant, previous_state)
   ELSE <<>>)
  \o detect_sensor_silence(current_plant, 90) \o detect_battery_low(current_plant, 20)
  \o (IF previous_state # NoneDict THEN detect_wifi_disconnect(current_plant, previous_state)
      ELSE <<>>)
  \o detect_critical_moisture(current_plant, previous_state)
  \o detect_temperature_extreme(current_plant)

(***************************************************************************)
(* handlers.py: handle_get_plant_events, for one plant and no filters      *)
(***************************************************************************)
\* Lines 1623-1624: priority_order and severity_order.
PriorityOrder(p) ==
  IF p = "immediate" THEN 0 ELSE IF p = "high" THEN 1 ELSE IF p = "medium" THEN 2 ELSE 3

SeverityOrder(sv) == IF sv = "critical" THEN 0 ELSE IF sv = "warning" THEN 1 ELSE 2

EventNotAfter(a, b) ==
  \/ PriorityOrder(a.priority) < PriorityOrder(b.priority)
  \/ /\ PriorityOrder(a.priority) = PriorityOrder(b.priority)
     /\ SeverityOrder(a.severity) <= SeverityOrder(b.severity)

\* list.sort(key=...) is stable.
RECURSIVE InsertEvent(_, _)
InsertEvent(sorted, e) ==
  IF sorted = <<>> THEN <<e>>
  ELSE IF EventNotAfter(sorted[Len(sorted)], e)
    THEN Append(sorted, e)
    ELSE Append(InsertEvent(SubSeq(sorted, 1, Len(sorted) - 1), e), sorted[Len(sorted)])

RECURSIVE SortedEvents(_)
SortedEvents(events) ==
  IF events = <<>> THEN <<>>
  ELSE InsertEvent(SortedEvents(SubSeq(events, 1, Len(events) - 1)), events[Len(events)])

\* Lines 1566-1586: the evaluated codes replace the FYTA codes unless the
\* evaluation fell back to them.
EventPlant(plant, enriched_plant_data, smart_status) ==
  IF smart_status.use_fyta_status THEN enriched_plant_data
  ELSE LET codes == SmartCodes(plant, smart_status)
       IN  [enriched_plant_data EXCEPT !["temperature_status"] = codes.temperature,
                                       !["light_status"] = codes.light,
                                       !["moisture_status"] = codes.moisture,
                                       !["salinity_status"] = codes.nutrients]

\* Lines 1541-1586: the plant handed to the detectors.
EnrichedEventPlant(plant, measurements_week) ==
  LET enriched_plant_data == EnrichedFromLatest(plant, measurements_week)
      smart_status == evaluate_plant_status(enriched_plant_data, measurements_week, NoneDict)
  IN  EventPlant(plant, enriched_plant_data, smart_status)

\* The previous state of a handler that kept the plant of its last poll.
PreviousStateKept(polls) ==
  IF polls = <<>> THEN NoneDict ELSE polls[Len(polls)].enriched_plant

\* Line 1593: previous_state = None, whatever polls were answered before.
PreviousState(polls) == NoneDict

\* The handler's answer after the polls already answered.
PlantEventsAfter(plant, measurements_week, polls) ==
  LET enriched_plant == EnrichedEventPlant(plant, measurements_week)
      events == SortedEvents(detect_all_events(enriched_plant, PreviousState(polls)))
  IN  [kind |-> "events", event_count |-> Len(events), events |-> events]

handle_get_plant_events(plant, measurements_week) ==
  PlantEventsAfter(plant, measurements_week, <<>>)

(***************************************************************************)
(* utils/care_actions.py and utils/plant_context.py: the two file-backed   *)
(* stores.  stores.actions is the list under "actions" of                  *)
(* care_actions.json, stores.contexts the dict under "contexts" of         *)
(* plant_contexts.json (NoneDict for a key that is not there), stores.now  *)
(* the rank of the instant datetime.now() returns next.                    *)
(***************************************************************************)
\* The plant_id argument: missing, not a number, the id of a plant of the
\* account, an id the account does not have.
NotANumber == -1
KnownPlantId == 1
UnknownPlantId == 9

\* The plant_id argument of a call whose plant_id parses as an integer.
PlantIds == {KnownPlantId, UnknownPlantId}

ContextFields == {"substrate", "container", "growth_phase", "notes"}

\* Both files as _ensure_storage creates them.
EmptyStores == [actions |-> <<>>, contexts |-> [p \in PlantIds |-> NoneDict], now |-> 0]

\* CareActionStore.log_action: the action appended to the list.
log_action(actions, plant_id, action_type, metadata, now) ==
  [id |-> Len(actions) + 1, plant_id |-> plant_id, action_type |-> action_type,
   timestamp |-> now, metadata |-> metadata]

\* PlantContextStore.set_context: dict.update on the stored context, a new
\* one when the key is missing, and the last_updated stamp.
set_context(contexts, plant_id, context, now) ==
  LET stored == IF contexts[plant_id] = NoneDict
                  THEN [f \in ContextFields |-> Absent]
                  ELSE [f \in ContextFields |-> contexts[plant_id][f]]
  IN  [f \in ContextFields |-> IF context[f] # Absent THEN context[f] ELSE stored[f]]
      @@ [last_updated |-> now]

(***************************************************************************)
(* Spec: one tool call against one plant of the upstream account.          *)
(* upstream holds what the FYTA API answers (the plant of get_plants, or   *)
(* NoneDict when the id is unknown, and the answer of                      *)
(* get_plant_measurements(id, "week"), NoneDict when it failed); reply is  *)
(* the handler's answer.  Readings are in the units of the API:            *)
(* temperature in degrees, moisture in percent, light in umol, EC in       *)
(* tenths of mS/cm.                                                        *)
(***************************************************************************)
StandardThresholds ==
  ("temperature_min_good" :> 15 @@ "temperature_max_good" :> 30 @@
   "temperature_min_acceptable" :> 10 @@ "temperature_max_acceptable" :> 35 @@
   "moisture_min_good" :> 40 @@ "moisture_max_good" :> 70 @@
   "moisture_min_acceptable" :> 5 @@ "moisture_max_acceptable" :> 95 @@
   "salinity_min_good" :> 3 @@ "salinity_max_good" :> 9 @@
   "light_min_good" :> 50 @@ "light_max_good" :> 500 @@
   "light_min_acceptable" :> 20 @@ "light_max_acceptable" :> 800) @@ BlankThresholds

Reading(temperature, light, soil_moisture, soil_fertility) ==
  ("temperature" :> temperature @@ "light" :> light @@
   "soil_moisture" :> soil_moisture @@ "soil_fertility" :> soil_fertility) @@ EmptyMeasurement

\* What one record can read: everything in its band, a dry and dim plant,
\* a hot and wet one, readings beyond the acceptable bounds, a lone
\* temperature, the legacy field names.
ReadingProfiles ==
  { Reading(22, 100, 50, 6),
    Reading(13, 30, 10, 2),
    Reading(33, 600, 92, 12),
    Reading(40, 900, 3, 6),
    Reading(12, Absent, Absent, Absent),
    ("moisture" :> 30 @@ "salinity" :> 10) @@ EmptyMeasurement }

\* A record is unstamped or carries one of two instants in date_utc.
HandlerRecords ==
  { [r EXCEPT !["date_utc"] = t] : r \in ReadingProfiles, t \in {Absent, 1, 2} }

\* The sensor of the plant and the minutes since it last reported.
Devices ==
  { <<NoneDict, Absent>>,
    <<[has_sensor |-> 1, sensor_type_id |-> 2, battery_level |-> 80], 30>>,
    <<[has_sensor |-> 1, sensor_type_id |-> 1, battery_level |-> 12], 100>>,
    <<[has_sensor |-> 1, sensor_type_id |-> 3, battery_level |-> 8], 130>>,
    <<[has_sensor |-> 0, sensor_type_id |-> 2, battery_level |-> 18], 200>> }

\* The measurement values and status codes the plant snapshot embeds.
Snapshots ==
  { [f \in ValueFields \cup StatusFields |-> Absent],
    ("temperature" :> 40 @@ "light" :> 10 @@ "moisture" :> 10 @@ "salinity" :> 20 @@
     "soil_moisture" :> Absent @@ "soil_fertility" :> Absent @@
     "temperature_status" :> 3 @@ "light_status" :> 1 @@
     "moisture_status" :> 1 @@ "salinity_status" :> 3),
    ("temperature" :> 20 @@ "light" :> 200 @@ "soil_moisture" :> 55 @@ "soil_fertility" :> 5 @@
     "moisture" :> Absent @@ "salinity" :> Absent @@
     "temperature_status" :> 2 @@ "light_status" :> 2 @@
     "moisture_status" :> 2 @@ "salinity_status" :> 2) }

PlantOf(snapshot, device) ==
  [(snapshot @@ BlankPlant) EXCEPT !.sensor = device[1], !["received_data_at"] = device[2]]

Upstream(plant, response) == [plant |-> plant, response |-> response]

\* No threshold set anywhere: every combination of upstream status codes.
InitDegraded ==
  \E codes \in [StatusFields -> StatusCodes], device \in Devices,
     response \in {NoneDict, BlankResponse,
                   [BlankResponse EXCEPT !.measurements = <<Reading(22, 100, 50, 6)>>]} :
    upstream = Upstream(PlantOf(codes @@ [f \in ValueFields |-> Absent], device), response)

\* A threshold set in the response, and up to MaxRecords records in any
\* order.
InitEvaluated ==
  \E snapshot \in Snapshots,
     device \in {d \in Devices : d[1] = NoneDict \/ d[2] = 30},
     records \in RecordLists(HandlerRecords, MaxRecords) :
    upstream = Upstream(PlantOf(snapshot, device),
                        [ResponseWith(StandardThresholds) EXCEPT !.measurements = records])

\* The plant id is not in the account.
InitUnknownPlant == upstream = Upstream(NoneDict, NoneDict)

Init ==
  /\ InitDegraded \/ InitEvaluated \/ InitUnknownPlant
  /\ reply = NoReply
  /\ stores = EmptyStores
  /\ PureIdle

Reply(op, out) == [op |-> op, out |-> out]

GetAllPlants ==
  /\ reply = NoReply /\ upstream # NoUpstream /\ upstream.plant # NoneDict
  /\ reply' = Reply("get_all_plants", handle_get_all_plants(upstream.plant, upstream.response))
  /\ UNCHANGED <<call, result, upstream, stores>>

GetPlantDetails ==
  /\ reply = NoReply /\ upstream # NoUpstream
  /\ reply' = Reply("get_plant_details",
                    handle_get_plant_details(upstream.plant, upstream.response))
  /\ UNCHANGED <<call, result, upstream, stores>>

GetPlantsNeedingAttention ==
  /\ reply = NoReply /\ upstream # NoUpstream /\ upstream.plant # NoneDict
  /\ reply' = Reply("get_plants_needing_attention",
                    handle_get_plants_needing_attention(upstream.plant, upstream.response))
  /\ UNCHANGED <<call, result, upstream, stores>>

\* The reply of diagnose_plant also records the keys the sub-analyses
\* added and the faults that occurred in them.
DiagnosePlant ==
  /\ reply = NoReply /\ upstream # NoUpstream
  /\ \E faults \in SubAnalysisFaults(upstream.plant, upstream.response) :
       reply' = [op |-> "diagnose_plant", faults |-> faults] @@
                DiagnoseWithSubAnalyses(upstream.plant, upstream.response, faults)
  /\ UNCHANGED <<call, result, upstream, stores>>

GetPlantEvents ==
  /\ reply = NoReply /\ upstream # NoUpstream /\ upstream.plant # NoneDict
  /\ reply' = Reply("get_plant_events",
                    handle_get_plant_events(upstream.plant, upstream.response))
  /\ UNCHANGED <<call, result, upstream, stores>>

Next ==
  \/ GetAllPlants
  \/ GetPlantDetails
  \/ GetPlantsNeedingAttention
  \/ DiagnosePlant
  \/ GetPlantEvents

Spec == Init /\ [][Next]_vars

\* The answer of the handler a tool name routes to (TOOL_HANDLERS), for
\* the same plant and another measurement response.
ToolOutput(op, plant, measurements_week) ==
  IF op = "get_all_plants" THEN handle_get_all_plants(plant, measurements_week)
  ELSE IF op = "get_plant_details" THEN handle_get_plant_details(plant, measurements_week)
  ELSE IF op = "get_plants_needing_attention"
    THEN handle_get_plants_needing_attention(plant, measurements_week)
  ELSE IF op = "diagnose_plant" THEN handle_diagnose_plant(plant, measurements_week)
  ELSE handle_get_plant_events(plant, measurements_week)

\* C6: for a plant with no resolvable threshold set,
\* evaluate_plant_status returns use_fyta_status = true with each metric's
\* status equal to the upstream status code (2 when absent), and
\* handle_diagnose_plant returns a health report, not an error payload,
\* for every combination of upstream status codes.
C6_DegradesInsteadOfFailing ==
  (/\ reply.op = "diagnose_plant"
   /\ upstream.plant # NoneDict
   /\ ResolveThresholds(upstream.plant, upstream.response) = NoneDict) =>
    LET smart_status == evaluate_plant_status(upstream.plant, upstream.response, NoneDict)
    IN  /\ smart_status.use_fyta_status
        /\ smart_status.temperature.status = GetOr(upstream.plant["temperature_status"], 2)
        /\ smart_status.light.status = GetOr(upstream.plant["light_status"], 2)
        /\ smart_status.moisture.status = GetOr(upstream.plant["moisture_status"], 2)
        /\ smart_status.nutrients.status = GetOr(upstream.plant["salinity_status"], 2)
        /\ reply.out.kind = "report"

\* C9: every handler that takes the plant's current values from the
\* measurement collection answers the same for every ordering in which
\* upstream returns the records.
C9_HandlersOrderIndependent ==
  (reply # NoReply /\ upstream.response # NoneDict) =>
    \A p \in Permutations(1..Len(upstream.response.measurements)) :
      ToolOutput(reply.op, upstream.plant,
                 [upstream.response EXCEPT !.measurements = Permuted(@, p)]) = reply.out

\* The values a plant snapshot may embed: each one missing or a stale
\* reading, or each one missing or zero.
EmbeddedValues == [ValueFields -> {Absent, 40}] \cup [ValueFields -> {Absent, 0}]

\* The latest record carries no value for the metric.
LatestLacks(metric, measurements_week) ==
  LET measurements_list == extract_measurements_from_response(measurements_week)
      latest == get_latest_measurement(measurements_list)
      lacks(f) == latest[f] = Absent
  IN  \/ measurements_list = <<>>
      \/ metric = "temperature" /\ lacks("temperature")
      \/ metric = "light" /\ lacks("light")
      \/ metric = "moisture" /\ lacks("soil_moisture") /\ lacks("moisture")
      \/ metric = "nutrients" /\ lacks("soil_fertility") /\ lacks("salinity")

\* C10: two plant snapshots that differ only in their embedded
\* temperature, light, moisture, soil_moisture, salinity or soil_fertility
\* values, diagnosed with the same measurement response, get the same
\* answer (sensorStatus, issueDetails, health); a metric absent from the
\* latest measurement is left unevaluated, not read from the snapshot.
C10_DiagnoseIgnoresSnapshotValues ==
  (reply.op = "diagnose_plant" /\ upstream.plant # NoneDict) =>
    /\ \A embedded \in EmbeddedValues :
         handle_diagnose_plant(embedded @@ upstream.plant, upstream.response) = reply.out
    /\ LET smart_status ==
             evaluate_plant_status(DiagnoseEnriched(upstream.plant, upstream.response),
                                   upstream.response, NoneDict)
       IN  \A m \in Metrics :
             LatestLacks(m, upstream.response) =>
               IF smart_status.use_fyta_status
                 THEN smart_status[m].value = None
                 ELSE smart_status[m] = NoneDict

\* A report for a snapshot that embeds a hot temperature and a dry soil
\* while the latest record reads a cool temperature and no moisture.
C10_Witness ==
  /\ reply.op = "diagnose_plant"
  /\ reply.out.kind = "report"
  /\ upstream.plant["temperature"] = 40
  /\ upstream.plant["moisture"] = 10
  /\ reply.out.smart_status # NoneDict
  /\ reply.out.smart_status.moisture = NoneDict
  /\ reply.out.sensorStatus.temperature = 1
  /\ reply.out.sensorStatus.moisture = 2

(***************************************************************************)
(* SpecHealth: the health fold of handle_diagnose_plant (lines 1110-1124)  *)
(* applied to every list of up to MaxIssues issues of any severity.        *)
(***************************************************************************)
MaxIssues == 4

Severities == {"critical", "high", "moderate", "low", "info"}

IssueLists == UNION { [1..k -> [severity : Severities]] : k \in 0..MaxIssues }

InitHealth ==
  /\ \E issues \in IssueLists : call = [fn |-> "health", issues |-> issues]
  /\ result = NoCall
  /\ HandlersIdle

DetermineHealth ==
  /\ call.fn = "health"
  /\ result = NoCall
  /\ result' = [fn |-> call.fn, ret |-> HealthOf(call.issues)]
  /\ UNCHANGED <<call, upstream, reply, stores>>

NextHealth == DetermineHealth

SpecHealth == InitHealth /\ [][NextHealth]_vars

\* C11: the overall health is a function of the counts of issue severities
\* only: critical if at least one issue is critical; otherwise poor if at
\* least two are high; otherwise fair if exactly one is high or at least
\* two are moderate; otherwise good if exactly one is moderate; otherwise
\* excellent.  Issues of severity low or info never lower the health.
C11_HealthFromSeverityCounts ==
  result.fn = "health" =>
    LET n(sev) == Cardinality({i \in 1..Len(call.issues) : call.issues[i].severity = sev})
    IN  /\ (result.ret = "critical") <=> n("critical") >= 1
        /\ (result.ret = "poor") <=> (n("critical") = 0 /\ n("high") >= 2)
        /\ (result.ret = "fair") <=>
             (n("critical") = 0 /\ (n("high") = 1 \/ (n("high") = 0 /\ n("moderate") >= 2)))
        /\ (result.ret = "good") <=>
             (n("critical") = 0 /\ n("high") = 0 /\ n("moderate") = 1)
        /\ (result.ret = "excellent") <=>
             (n("critical") = 0 /\ n("high") = 0 /\ n("moderate") = 0)

\* One high issue beside moderate and low ones is rated fair.
C11_Witness ==
  /\ result.fn = "health"
  /\ result.ret = "fair"
  /\ \E i, j, k \in 1..Len(call.issues) :
       /\ call.issues[i].severity = "high"
       /\ call.issues[j].severity = "moderate"
       /\ call.issues[k].severity = "low"

\* C12: if the fertilization or the watering sub-analysis of
\* handle_diagnose_plant raises, the diagnosis is still returned with its
\* health and issues unchanged, the failed section's key is absent, and
\* the other sub-analysis is still attempted (its key is present when it
\* runs without a fault).
C12_SubAnalysisFailureOmitted ==
  (/\ reply.op = "diagnose_plant"
   /\ handle_diagnose_plant(upstream.plant, upstream.response).kind = "report") =>
    /\ reply.out = handle_diagnose_plant(upstream.plant, upstream.response)
    /\ reply.faults.fertilization => "fertilization" \notin reply.sections
    /\ reply.faults.watering => "watering" \notin reply.sections
    /\ (WateringAttempted(upstream.plant, upstream.response) /\ ~reply.faults.watering)
         => "watering" \in reply.sections
    /\ (FertilizationAttempted(upstream.plant, upstream.response) /\ ~reply.faults.fertilization)
         => "fertilization" \in reply.sections

\* The fertilization analysis raised, the report stands and carries the
\* watering section.
C12_Witness ==
  /\ reply.op = "diagnose_plant"
  /\ reply.out.kind = "report"
  /\ reply.faults.fertilization
  /\ reply.sections = {"watering"}

(***************************************************************************)
(* handlers.py: handle_tool_call, the boundary every tool call crosses     *)
(***************************************************************************)
\* The keys of TOOL_HANDLERS.
TOOL_HANDLERS ==
  {"get_all_plants", "get_plant_details", "get_plants_needing_attention",
   "get_garden_overview", "get_plant_measurements", "diagnose_plant",
   "get_plant_trends", "get_plant_statistics", "get_plant_dli_analysis",
   "get_plant_events", "log_plant_care_action", "get_plant_care_history",
   "set_plant_context", "get_plant_context"}

\* The handlers that evaluate int(arguments["plant_id"]) before any try.
ParsesPlantIdUnguarded ==
  {"get_plant_details", "get_plant_measurements", "diagnose_plant", "get_plant_trends",
   "get_plant_statistics", "get_plant_dli_analysis", "log_plant_care_action",
   "get_plant_care_history"}

\* The handlers that await get_plants or get_plant_by_id outside any try.
AwaitsPlantsUnguarded ==
  {"get_all_plants", "get_plant_details", "get_plants_needing_attention",
   "get_garden_overview", "log_plant_care_action", "get_plant_care_history"}

\* The handlers that call the care-action store outside any try, once the
\* plant is found.
CallsStoreUnguarded == {"log_plant_care_action", "get_plant_care_history"}

\* An exception leaves the handler: a KeyError or ValueError from the
\* plant_id, a failure of the upstream client, a failure of the store.
HandlerRaises(name, arguments, upstream_ok, store_ok) ==
  \/ name \in ParsesPlantIdUnguarded /\ arguments.plant_id \in {Absent, NotANumber}
  \/ /\ name \in AwaitsPlantsUnguarded
     /\ name \in ParsesPlantIdUnguarded => arguments.plant_id \notin {Absent, NotANumber}
     /\ ~upstream_ok
  \/ /\ name \in CallsStoreUnguarded
     /\ arguments.plant_id = KnownPlantId
     /\ upstream_ok /\ ~store_ok

TextContent(text) == [type |-> "text", text |-> text]

\* handle_tool_call without the try of lines 1946-1950.
handle_tool_call_unguarded(name, arguments, upstream_ok, store_ok) ==
  IF name \notin TOOL_HANDLERS THEN TextContent("Unknown tool")
  ELSE IF HandlerRaises(name, arguments, upstream_ok, store_ok)
    THEN [type |-> "exception", text |-> "raised"]
  ELSE TextContent("handler")

\* Lines 1939-1950; "handler" stands for the text the handler returned.
handle_tool_call(name, arguments, upstream_ok, store_ok) ==
  IF name \notin TOOL_HANDLERS THEN TextContent("Unknown tool")
  ELSE IF HandlerRaises(name, arguments, upstream_ok, store_ok) THEN TextContent("Error")
  ELSE TextContent("handler")

(***************************************************************************)
(* SpecToolCall: handle_tool_call for every registered name, every         *)
(* advertised name, two more, every plant_id argument and every failure of *)
(* the upstream client and of the store.                                   *)
(***************************************************************************)
\* tools.py: the names of the tools get_tool_definitions lists.
get_tool_definitions ==
  {"get_all_plants", "get_plant_details", "get_plants_needing_attention",
   "get_garden_overview", "get_plant_measurements", "diagnose_plant",
   "get_plant_trends", "get_plant_statistics", "get_plant_dli_analysis",
   "log_plant_care_action", "get_plant_care_history", "get_plant_events",
   "set_plant_context", "get_plant_context", "get_fyta_raw_data", "get_all_hubs",
   "get_hub_details"}

ToolNames == TOOL_HANDLERS \cup get_tool_definitions \cup {"", "water_plant"}

ToolCalls ==
  [fn : {"handle_tool_call"}, name : ToolNames,
   arguments : [plant_id : {Absent, NotANumber, KnownPlantId, UnknownPlantId}],
   upstream_ok : BOOLEAN, store_ok : BOOLEAN]

InitToolCall == call \in ToolCalls /\ result = NoCall /\ HandlersIdle

ToolCall ==
  /\ call.fn = "handle_tool_call"
  /\ result = NoCall
  /\ result' = [fn |-> call.fn,
                ret |-> handle_tool_call(call.name, call.arguments,
                                         call.upstream_ok, call.store_ok)]
  /\ UNCHANGED <<call, upstream, reply, stores>>

NextToolCall == ToolCall

SpecToolCall == InitToolCall /\ [][NextToolCall]_vars

\* C13: handle_tool_call never propagates an exception: for every tool
\* name and argument bag, and for every failure raised inside a handler or
\* by the upstream client, it returns a text payload, an 'Unknown tool'
\* text for an unregistered name and an 'Error' text for a failure.
C13_ToolCallAlwaysReturnsText ==
  result.fn = "handle_tool_call" =>
    /\ result.ret.type = "text"
    /\ call.name \notin TOOL_HANDLERS => result.ret.text = "Unknown tool"
    /\ (/\ call.name \in TOOL_HANDLERS
        /\ HandlerRaises(call.name, call.arguments, call.upstream_ok, call.store_ok))
         => result.ret.text = "Error"

\* The upstream client failed under a handler that does not catch it.
C13_Witness ==
  /\ result.fn = "handle_tool_call"
  /\ call.name = "get_all_plants"
  /\ ~call.upstream_ok
  /\ result.ret = TextContent("Error")

(***************************************************************************)
(* SpecStores: calls of the two tools that write persistent state,         *)
(* log_plant_care_action and set_plant_context, one after another against  *)
(* an account that has the plant KnownPlantId and not UnknownPlantId.      *)
(* Every call takes the next instant; MaxCalls calls are made.             *)
(***************************************************************************)
MaxCalls == 3

Account == [plant_ids |-> {KnownPlantId}]

\* get_plant_by_id: the plant, None when the account lacks the id.
PlantExists(plant_id) == plant_id \in upstream.plant_ids

ActionTypes == {"watering", "fertilizing"}

\* The metadata built from the optional amount argument.
MetadataArgs == {NoneDict, [amount |-> 1]}

\* The tags of two substrates and one value for each other field.
Mineral == 1
Organic == 2

ContextArgs ==
  { c \in [ContextFields -> {Absent, Mineral, Organic}] :
      \A f \in ContextFields \ {"substrate"} : c[f] # Organic }

InitStores ==
  /\ upstream = Account
  /\ stores = EmptyStores
  /\ reply = NoReply
  /\ PureIdle

\* handle_log_plant_care_action (lines 1420-1449).
LogPlantCareAction ==
  /\ stores.now < MaxCalls
  /\ \E plant_id \in PlantIds, action_type \in ActionTypes, metadata \in MetadataArgs :
       LET now == stores.now + 1
           action == log_action(stores.actions, plant_id, action_type, metadata, now)
       IN  IF ~PlantExists(plant_id)
             THEN /\ reply' = [op |-> "log_plant_care_action", plant_id |-> plant_id,
                               at |-> now, out |-> [kind |-> "not_found"]]
                  /\ stores' = [stores EXCEPT !.now = now]
             ELSE /\ reply' = [op |-> "log_plant_care_action", plant_id |-> plant_id,
                               at |-> now, out |-> [kind |-> "logged", action |-> action]]
                  /\ stores' = [stores EXCEPT !.now = now,
                                              !.actions = Append(@, action)]
  /\ UNCHANGED <<call, result, upstream>>

\* handle_set_plant_context (lines 1817-1857): no lookup of the plant.
SetPlantContext ==
  /\ stores.now < MaxCalls
  /\ \E plant_id \in PlantIds, context \in ContextArgs :
       LET now == stores.now + 1
           updated_context == set_context(stores.contexts, plant_id, context, now)
       IN  IF \A f \in ContextFields : context[f] = Absent
             THEN /\ reply' = [op |-> "set_plant_context", plant_id |-> plant_id,
                               at |-> now, out |-> [kind |-> "error"]]
                  /\ stores' = [stores EXCEPT !.now = now]
             ELSE /\ reply' = [op |-> "set_plant_context", plant_id |-> plant_id,
                               at |-> now,
                               out |-> [kind |-> "context_set", context |-> updated_context]]
                  /\ stores' = [stores EXCEPT !.now = now,
                                              !.contexts[plant_id] = updated_context]
  /\ UNCHANGED <<call, result, upstream>>

NextStores == LogPlantCareAction \/ SetPlantContext

SpecStores == InitStores /\ [][NextStores]_vars

\* C14: for a plant id that is absent upstream, log_plant_care_action and
\* set_plant_context return a not-found message and leave the care-action
\* store and the plant-context store unchanged.
C14_AbsentPlantLeavesStoresUnchanged ==
  [][(/\ reply'.op \in {"log_plant_care_action", "set_plant_context"}
      /\ ~PlantExists(reply'.plant_id))
       => /\ reply'.out.kind = "not_found"
          /\ stores'.actions = stores.actions
          /\ stores'.contexts = stores.contexts]_vars

(***************************************************************************)
(* utils/trends.py: calculate_trend.  A data point is <<time, value>>,     *)
(* both integers (time in hours).  Quotients are kept exact until the      *)
(* rounding of the result: slope is reported in 1/10000, confidence, the   *)
(* percentages and the values in 1/100.                                    *)
(***************************************************************************)
Abs(x) == IF x < 0 THEN -x ELSE x

\* round(a / b, digits) scaled to an integer, ties to even; b > 0.
RoundHalfEven(a, b) ==
  LET q == a \div b
      r == a - q * b
  IN  IF 2 * r < b THEN q
      ELSE IF 2 * r > b THEN q + 1
      ELSE IF q % 2 = 0 THEN q ELSE q + 1

RoundDiv(a, b) == IF b > 0 THEN RoundHalfEven(a, b) ELSE RoundHalfEven(-a, -b)

\* sorted(data_points, key=lambda x: x[0]) is stable.
RECURSIVE InsertPoint(_, _)
InsertPoint(sorted, pt) ==
  IF sorted = <<>> THEN <<pt>>
  ELSE IF sorted[Len(sorted)][1] <= pt[1]
    THEN Append(sorted, pt)
    ELSE Append(InsertPoint(SubSeq(sorted, 1, Len(sorted) - 1), pt), sorted[Len(sorted)])

RECURSIVE SortedPoints(_)
SortedPoints(points) ==
  IF points = <<>> THEN <<>>
  ELSE InsertPoint(SortedPoints(SubSeq(points, 1, Len(points) - 1)), points[Len(points)])

RECURSIVE SumOver(_, _, _)
SumOver(points, Term(_), i) ==
  IF i > Len(points) THEN 0 ELSE Term(points[i]) + SumOver(points, Term, i + 1)

\* Lines 16-23.
NeutralTrend ==
  [direction |-> "stable", slope |-> 0, confidence |-> 0, forecast_hours |-> None,
   data_points |-> 0]

calculate_trend(data_points) ==
  IF Len(data_points) < 2 THEN NeutralTrend
  ELSE
    LET pts == SortedPoints(data_points)
        n == Len(pts)
        X(pt) == pt[1]
        Y(pt) == pt[2]
        XY(pt) == pt[1] * pt[2]
        X2(pt) == pt[1] * pt[1]
        Y2(pt) == pt[2] * pt[2]
        sum_x == SumOver(pts, X, 1)
        sum_y == SumOver(pts, Y, 1)
        sum_xy == SumOver(pts, XY, 1)
        sum_x2 == SumOver(pts, X2, 1)
        denominator == n * sum_x2 - sum_x * sum_x
        \* slope = numerator / denominator, 0 when the denominator is 0
        numerator == IF denominator = 0 THEN 0 ELSE n * sum_xy - sum_x * sum_y
        slope_den == IF denominator = 0 THEN 1 ELSE denominator
        \* ss_tot = n_ss_tot / n; r_squared = numerator^2 / (denominator * n_ss_tot)
        n_ss_tot == n * SumOver(pts, Y2, 1) - sum_y * sum_y
        time_range == pts[n][1] - pts[1][1]
        recent_value == pts[n][2]
        \* slope_per_hour = numerator / (slope_den * time_range)
        per_hour_den == slope_den * time_range
        direction ==
          IF Abs(numerator) * 1000 < Abs(recent_value) * 5 * Abs(per_hour_den) THEN "stable"
          ELSE IF numerator > 0 THEN "increasing"
          ELSE "decreasing"
        first_value == pts[1][2]
    IN  IF time_range = 0
          \* line 71 reads recent_value, which only line 60 binds
          THEN [raised |-> "UnboundLocalError"]
          ELSE [direction |-> direction,
                slope |-> RoundDiv(numerator * 10000, per_hour_den),
                slope_percent_per_hour |->
                  RoundDiv(numerator * 10000,
                           per_hour_den * (IF recent_value # 0 THEN recent_value ELSE 1)),
                confidence |-> IF n_ss_tot > 0
                                 THEN RoundDiv(numerator * numerator * 100,
                                               slope_den * n_ss_tot)
                                 ELSE 0,
                data_points |-> n,
                first_value |-> first_value * 100,
                last_value |-> recent_value * 100,
                change |-> (recent_value - first_value) * 100,
                change_percent |-> IF first_value # 0
                                     THEN RoundDiv((recent_value - first_value) * 10000,
                                                   first_value)
                                     ELSE 0]

(***************************************************************************)
(* SpecTrend: calculate_trend applied to every list of up to MaxPoints     *)
(* points at the hours 0..MaxHour.                                         *)
(***************************************************************************)
MaxPoints == 3
MaxHour == 2

TrendValues == {-2, 0, 2, 4}

PointLists == UNION { [1..k -> (0..MaxHour) \X TrendValues] : k \in 0..MaxPoints }

InitTrend ==
  /\ \E data_points \in PointLists : call = [fn |-> "calculate_trend", data_points |-> data_points]
  /\ result = NoCall
  /\ HandlersIdle

CalculateTrend ==
  /\ call.fn = "calculate_trend"
  /\ result = NoCall
  /\ result' = [fn |-> call.fn, ret |-> calculate_trend(call.data_points)]
  /\ UNCHANGED <<call, upstream, reply, stores>>

NextTrend == CalculateTrend

SpecTrend == InitTrend /\ [][NextTrend]_vars

\* The input has fewer than two points or all its points share one time.
DegenerateSeries(data_points) ==
  \/ Len(data_points) < 2
  \/ \A i, j \in 1..Len(data_points) : data_points[i][1] = data_points[j][1]

\* C15: calculate_trend returns a neutral result (direction 'stable',
\* slope 0, confidence 0) and never raises for every degenerate input: an
\* empty list, a single point, and two or more points that all share the
\* same timestamp.
C15_DegenerateTrendNeutral ==
  (result.fn = "calculate_trend" /\ DegenerateSeries(call.data_points)) =>
    /\ "raised" \notin DOMAIN result.ret
    /\ result.ret.direction = "stable"
    /\ result.ret.slope = 0
    /\ result.ret.confidence = 0

(***************************************************************************)
(* utils/watering.py: analyze_moisture_trend.  Timestamps are whole days   *)
(* (a rank, as everywhere), now is the day of the call.  change and the    *)
(* moistures are reported in 1/10, slope_per_day in 1/1000, confidence and *)
(* moisture_per_day in 1/100.                                              *)
(***************************************************************************)
\* Lines 98-109.
UnanalyzedMoisture(days) ==
  [analyzed |-> FALSE, days_analyzed |-> days, data_points |-> 0,
   current_moisture |-> None, initial_moisture |-> None, change |-> None,
   trend |-> "unknown", slope_per_day |-> None, confidence |-> 0,
   prediction |-> None, consumption_rate |-> None]

\* Lines 118-134: the readings kept, as <<timestamp, moisture>>, in input
\* order: a timestamp, a moisture value, and the timestamp not before the
\* cutoff.
RECURSIVE RecentMoisture(_, _, _)
RecentMoisture(measurements, cutoff_date, i) ==
  IF i > Len(measurements) THEN <<>>
  ELSE LET m == measurements[i]
           timestamp_value == PyOr(PyOr(Get(m["date_utc"]), Get(m["timestamp"])),
                                   Get(m["measured_at"]))
           moisture_value == PyOr(Get(m["soil_moisture"]), Get(m["moisture"]))
           rest == RecentMoisture(measurements, cutoff_date, i + 1)
       IN  IF ~Truthy(timestamp_value) \/ moisture_value = None THEN rest
           ELSE IF timestamp_value >= cutoff_date
             THEN <<(<<timestamp_value, moisture_value>>)>> \o rest
           ELSE rest

analyze_moisture_trend(measurements, days, now) ==
  LET recent == RecentMoisture(measurements, now - days, 1) IN
  IF Len(measurements) < 2 \/ Len(recent) < 2 THEN UnanalyzedMoisture(days)
  ELSE
    LET pts == SortedPoints(recent)
        n == Len(pts)
        current_moisture == pts[n][2]
        initial_moisture == pts[1][2]
        X(pt) == pt[1] - pts[1][1]
        Y(pt) == pt[2]
        XY(pt) == (pt[1] - pts[1][1]) * pt[2]
        X2(pt) == (pt[1] - pts[1][1]) * (pt[1] - pts[1][1])
        Y2(pt) == pt[2] * pt[2]
        sum_x == SumOver(pts, X, 1)
        sum_y == SumOver(pts, Y, 1)
        denominator == n * SumOver(pts, X2, 1) - sum_x * sum_x
        numerator == n * SumOver(pts, XY, 1) - sum_x * sum_y
        n_ss_tot == n * SumOver(pts, Y2, 1) - sum_y * sum_y
        \* the regression runs for three points or more; a zero denominator
        \* raises ZeroDivisionError, which line 185 swallows
        regressed == n >= 3 /\ denominator # 0
        slope_per_day == IF regressed THEN RoundDiv(numerator * 1000, denominator) ELSE None
        trend == IF ~regressed THEN "unknown"
                 ELSE IF 2 * Abs(numerator) < denominator THEN "stable"
                 ELSE IF numerator < 0 THEN "decreasing"
                 ELSE "increasing"
        decreasing == trend = "decreasing" /\ slope_per_day # None
    IN  [analyzed |-> TRUE, days_analyzed |-> days, data_points |-> n,
         current_moisture |-> current_moisture * 10,
         initial_moisture |-> initial_moisture * 10,
         change |-> (current_moisture - initial_moisture) * 10,
         trend |-> trend,
         slope_per_day |-> slope_per_day,
         confidence |-> IF regressed /\ n_ss_tot > 0
                          THEN RoundDiv(numerator * numerator * 100, denominator * n_ss_tot)
                          ELSE 0,
         \* days_until_critical, in 1/10
         prediction |-> IF decreasing /\ slope_per_day < 0 /\ current_moisture > 20
                          THEN RoundDiv((current_moisture - 20) * 10000, Abs(slope_per_day))
                          ELSE None,
         \* moisture_per_day
         consumption_rate |-> IF decreasing THEN RoundDiv(Abs(slope_per_day), 10) ELSE None]

(***************************************************************************)
(* SpecMoistureTrend: analyze_moisture_trend over 7 days applied to every  *)
(* list of up to MaxReadings records, stamped or not, inside the window    *)
(* or before it.                                                           *)
(***************************************************************************)
MaxReadings == 3

\* The day of the call and the days a record can be stamped with: one
\* before the 7-day window, two inside it, the day of the call.
Today == 10
ReadingDays == {1, 8, 9, Today}

MoistureRecords ==
  { ("date_utc" :> d @@ "soil_moisture" :> sm @@ "moisture" :> m) @@ EmptyMeasurement :
    d \in {Absent} \cup ReadingDays, sm \in {Absent, 0, 40, 80}, m \in {Absent, 60} }

InitMoistureTrend ==
  /\ \E measurements \in RecordLists(MoistureRecords, MaxReadings) :
       call = [fn |-> "analyze_moisture_trend", measurements |-> measurements,
               days |-> 7, now |-> Today]
  /\ result = NoCall
  /\ HandlersIdle

AnalyzeMoistureTrend ==
  /\ call.fn = "analyze_moisture_trend"
  /\ result = NoCall
  /\ result' = [fn |-> call.fn,
                ret |-> analyze_moisture_trend(call.measurements, call.days, call.now)]
  /\ UNCHANGED <<call, upstream, reply, stores>>

NextMoistureTrend == AnalyzeMoistureTrend

SpecMoistureTrend == InitMoistureTrend /\ [][NextMoistureTrend]_vars

\* C16: analyze_moisture_trend, given two timestamped soil_moisture
\* readings inside the analysis window with the later one lower than the
\* earlier, reports trend 'decreasing' and change equal to the later value
\* minus the earlier.
C16_TwoReadingsDecreasing ==
  (/\ result.fn = "analyze_moisture_trend"
   /\ Len(call.measurements) = 2
   /\ \A i \in 1..2 : /\ call.measurements[i]["date_utc"] # Absent
                      /\ call.measurements[i]["date_utc"] >= call.now - call.days
                      /\ Truthy(call.measurements[i]["soil_moisture"])) =>
    \A i, j \in 1..2 :
      (/\ call.measurements[i]["date_utc"] < call.measurements[j]["date_utc"]
       /\ call.measurements[j]["soil_moisture"] < call.measurements[i]["soil_moisture"]) =>
        /\ result.ret.trend = "decreasing"
        /\ result.ret.change =
             (call.measurements[j]["soil_moisture"] - call.measurements[i]["soil_moisture"]) * 10

(***************************************************************************)
(* utils/statistics.py: detect_anomalies.  With n values of sum S the mean *)
(* is S/n and the variance (n*sum(x^2) - S^2)/n^2, so everything is        *)
(* computed on the integers n*x - S and n*sum(x^2) - S^2.  threshold_sigma *)
(* is in 1/10, value and deviation_percent in 1/100.                       *)
(***************************************************************************)
\* Lines 96-102 and 108-114.
NoAnomalies(method) ==
  [has_anomalies |-> FALSE, anomaly_count |-> 0, anomaly_indices |-> <<>>, method |-> method]

Square(x) == x * x

\* Lines 117-126: the loop over the values from index i (0-based i - 1) on.
\* An anomaly's deviation_percent divides by the mean.  Its z_score, a
\* rounded quotient by a square root, is not carried.
RECURSIVE Anomalies(_, _, _, _, _)
Anomalies(values, threshold_sigma, sum, nvar, i) ==
  IF i > Len(values) THEN <<>>
  ELSE LET d == Len(values) * values[i] - sum
           rest == Anomalies(values, threshold_sigma, sum, nvar, i + 1)
       IN  IF (threshold_sigma < 0 \/ 100 * Square(d) > Square(threshold_sigma) * nvar)
             THEN <<[index |-> i - 1, value |-> values[i] * 100,
                     deviation_percent |->
                       IF sum = 0 THEN [raised |-> "ZeroDivisionError"]
                       ELSE [percent |-> RoundDiv(d * 10000, sum)]]>> \o rest
           ELSE rest

detect_anomalies(values, threshold_sigma) ==
  IF Len(values) < 3 THEN NoAnomalies("insufficient_data")
  ELSE
    LET Value(x) == x
        sum == SumOver(values, Value, 1)
        nvar == Len(values) * SumOver(values, Square, 1) - Square(sum)
        anomalies == Anomalies(values, threshold_sigma, sum, nvar, 1)
    IN  IF nvar = 0 THEN NoAnomalies("no_variation")
        ELSE IF \E i \in 1..Len(anomalies) :
                  anomalies[i].deviation_percent = [raised |-> "ZeroDivisionError"]
          THEN [raised |-> "ZeroDivisionError"]
        ELSE [has_anomalies |-> Len(anomalies) > 0, anomaly_count |-> Len(anomalies),
              anomalies |-> anomalies, method |-> "z_score",
              threshold_sigma |-> threshold_sigma]

(***************************************************************************)
(* SpecAnomalies: detect_anomalies applied to every list of up to          *)
(* MaxSamples values, under a threshold of 1, 1.5 or 2 sigma.              *)
(***************************************************************************)
MaxSamples == 4

SampleValues == {-2, 0, 1, 2}
SigmaThresholds == {10, 15, 20}

InitAnomalies ==
  /\ \E values \in RecordLists(SampleValues, MaxSamples), threshold_sigma \in SigmaThresholds :
       call = [fn |-> "detect_anomalies", values |-> values,
               threshold_sigma |-> threshold_sigma]
  /\ result = NoCall
  /\ HandlersIdle

DetectAnomalies ==
  /\ call.fn = "detect_anomalies"
  /\ result = NoCall
  /\ result' = [fn |-> call.fn, ret |-> detect_anomalies(call.values, call.threshold_sigma)]
  /\ UNCHANGED <<call, upstream, reply, stores>>

NextAnomalies == DetectAnomalies

SpecAnomalies == InitAnomalies /\ [][NextAnomalies]_vars

\* All values of the sequence equal, i.e. zero standard deviation.
NoVariation(values) == \A i, j \in 1..Len(values) : values[i] = values[j]

\* C17: detect_anomalies returns a result and never raises, for every
\* numeric sequence and sigma threshold: method 'insufficient_data' for
\* fewer than 3 points, 'no_variation' for zero standard deviation, and the
\* z-score result otherwise, sequences whose mean is 0 included.
C17_AnomaliesNeverRaise ==
  result.fn = "detect_anomalies" =>
    /\ "raised" \notin DOMAIN result.ret
    /\ result.ret.method =
         IF Len(call.values) < 3 THEN "insufficient_data"
         ELSE IF NoVariation(call.values) THEN "no_variation"
         ELSE "z_score"

(***************************************************************************)
(* SpecStatusChanges: detect_status_changes applied to every current       *)
(* snapshot of four status codes (1 Low, 2 Optimal, 3 High, 4 or a missing *)
(* key) against no previous state or a previous snapshot.                  *)
(***************************************************************************)
\* The fields of a snapshot the previous-state detectors read.
EventSnapshots(codes, wifi) ==
  { snapshot @@ ("wifi_status" :> w) : snapshot \in [StatusFields -> codes], w \in wifi }

PreviousSnapshots ==
  { snapshot \in EventSnapshots(StatusCodes, {1}) :
      \/ \A f, g \in StatusFields : snapshot[f] = snapshot[g]
      \/ /\ snapshot["temperature_status"] = 1 /\ snapshot["light_status"] = 2
         /\ snapshot["moisture_status"] = 3 /\ snapshot["salinity_status"] = 4 }

InitStatusChanges ==
  /\ \E current_plant \in EventSnapshots(StatusCodes, {1}),
        previous_state \in {NoneDict} \cup PreviousSnapshots :
       call = [fn |-> "detect_status_changes", current_plant |-> current_plant,
               previous_state |-> previous_state]
  /\ result = NoCall
  /\ HandlersIdle

DetectStatusChanges ==
  /\ call.fn = "detect_status_changes"
  /\ result = NoCall
  /\ result' = [fn |-> call.fn,
                ret |-> detect_status_changes(call.current_plant, call.previous_state)]
  /\ UNCHANGED <<call, upstream, reply, stores>>

NextStatusChanges == DetectStatusChanges

SpecStatusChanges == InitStatusChanges /\ [][NextStatusChanges]_vars

\* C18: given a previous snapshot, detect_status_changes emits exactly one
\* status_change event for each of the four metrics whose status code
\* differs between the two snapshots and none for a metric whose code is
\* equal; the event is info/low when the new status is Optimal,
\* warning/medium when the status leaves Optimal for Low or High, and
\* critical/high for every other transition, a transition into status code
\* 4 included.
C18_StatusChangeSeverity ==
  (result.fn = "detect_status_changes" /\ call.previous_state # NoneDict) =>
    \A i \in 1..Len(status_mapping) :
      LET status_key == status_mapping[i][1]
          from == GetOr(call.previous_state[status_key], 2)
          to == GetOr(call.current_plant[status_key], 2)
          emitted == { k \in 1..Len(result.ret) : result.ret[k].metric = status_mapping[i][2] }
      IN  IF from = to THEN emitted = {}
          ELSE /\ Cardinality(emitted) = 1
               /\ \A k \in emitted :
                    /\ result.ret[k].event_type = "status_change"
                    /\ <<result.ret[k].severity, result.ret[k].priority>> =
                         IF to = 2 THEN <<"info", "low">>
                         ELSE IF from = 2 /\ to \in {1, 3} THEN <<"warning", "medium">>
                         ELSE <<"critical", "high">>

(***************************************************************************)
(* SpecPolls: a scheduler polling one plant up to MaxPolls times.  Each    *)
(* poll runs the detectors on the plant as it is now, with the plant of    *)
(* the preceding poll as previous_state (None at the first poll), and      *)
(* keeps the plant for the next poll.  result.log has one row per poll.    *)
(***************************************************************************)
MaxPolls == 3

\* The plant at a poll: connected, disconnected or without wifi_status;
\* moisture Low, Optimal, High or without moisture_status.
PollPlants ==
  { snapshot @@ BlankPlant :
      snapshot \in { sn \in EventSnapshots({Absent, 1, 2, 3}, {Absent, 0, 1}) :
                       \A f \in StatusFields \ {"moisture_status"} : sn[f] = Absent } }

InitPolls ==
  /\ call = [fn |-> "poll", previous_state |-> NoneDict]
  /\ result = [fn |-> "poll", log |-> <<>>]
  /\ HandlersIdle

Poll ==
  /\ call.fn = "poll"
  /\ Len(result.log) < MaxPolls
  /\ \E current_plant \in PollPlants :
       /\ result' = [result EXCEPT !.log =
            Append(@, [current_plant |-> current_plant,
                       previous_state |-> call.previous_state,
                       wifi |-> detect_wifi_disconnect(current_plant, call.previous_state),
                       moisture |-> detect_critical_moisture(current_plant, call.previous_state),
                       events |-> detect_all_events(current_plant, call.previous_state)])]
       /\ call' = [call EXCEPT !.previous_state = current_plant]
  /\ UNCHANGED <<upstream, reply, stores>>

NextPolls == Poll

SpecPolls == InitPolls /\ [][NextPolls]_vars

Polled == result.fn = "poll"

\* C19 as stated: over a sequence of polls each fed with the preceding
\* poll's snapshot, detect_wifi_disconnect emits a wifi_disconnected event
\* at exactly the polls where wifi_status is 1 in the previous snapshot and
\* 0 in the current one.
C19_WifiEdgeLiteral ==
  Polled =>
    \A k \in 1..Len(result.log) :
      result.log[k].wifi # <<>> <=>
        /\ k > 1
        /\ result.log[k - 1].current_plant["wifi_status"] = 1
        /\ result.log[k].current_plant["wifi_status"] = 0

\* C19, amended: over a sequence of polls each fed with the preceding
\* poll's snapshot, detect_wifi_disconnect emits one wifi_disconnected
\* event (warning, medium) at exactly the polls where the previous snapshot
\* has wifi_status 1 or no wifi_status at all and the current one has
\* wifi_status 0; so never at the first poll, which has no previous state,
\* and never at a later poll while the sensor stays disconnected.
C19_WifiEdgeTriggered ==
  Polled =>
    \A k \in 1..Len(result.log) :
      /\ result.log[k].previous_state =
           IF k = 1 THEN NoneDict ELSE result.log[k - 1].current_plant
      /\ result.log[k].wifi =
           IF /\ k > 1
              /\ result.log[k - 1].current_plant["wifi_status"] \in {1, Absent}
              /\ result.log[k].current_plant["wifi_status"] = 0
             THEN <<Event("wifi_disconnected", "warning", "medium")>>
           ELSE <<>>
      /\ (k > 1 /\ result.log[k - 1].current_plant["wifi_status"] = 0) =>
           result.log[k].wifi = <<>>

\* Three polls: connected, disconnected, still disconnected; the event is
\* emitted at the second poll only.
C19_Witness ==
  /\ Polled
  /\ Len(result.log) = 3
  /\ result.log[1].current_plant["wifi_status"] = 1
  /\ result.log[2].current_plant["wifi_status"] = 0
  /\ result.log[3].current_plant["wifi_status"] = 0
  /\ result.log[1].wifi = <<>>
  /\ result.log[2].wifi # <<>>
  /\ result.log[3].wifi = <<>>

\* C20: detect_critical_moisture emits exactly one event, critical and
\* immediate, iff the current moisture status is 1; its is_new_critical is
\* true iff a previous snapshot is supplied whose moisture status was not
\* 1, and false otherwise, the case of no previous state included.  So over
\* a sequence of polls fed with the preceding snapshot is_new_critical is
\* true only at the first poll of a low-moisture episode.
C20_CriticalMoistureFlag ==
  Polled =>
    \A k \in 1..Len(result.log) :
      LET row == result.log[k] IN
      IF row.current_plant["moisture_status"] = 1
        THEN /\ Len(row.moisture) = 1
             /\ row.moisture[1].severity = "critical"
             /\ row.moisture[1].priority = "immediate"
             /\ row.moisture[1].is_new_critical =
                  IF k > 1 /\ result.log[k - 1].current_plant["moisture_status"] # 1
                    THEN "True" ELSE "False"
             /\ row.moisture[1].is_new_critical = "True" =>
                  (k > 1 /\ result.log[k - 1].current_plant["moisture_status"] # 1)
      ELSE row.moisture = <<>>

(***************************************************************************)
(* Further properties of calculate_trend, on SpecTrend                     *)
(***************************************************************************)
DistinctTimes(data_points) ==
  \E i, j \in 1..Len(data_points) : data_points[i][1] # data_points[j][1]

\* The ordinary least-squares slope of value on time,
\* (n*Sxy - Sx*Sy) / (n*Sxx - Sx*Sx), rounded to 1/10000.
LeastSquaresSlope(data_points) ==
  LET n == Len(data_points)
      X(pt) == pt[1]
      Y(pt) == pt[2]
      XY(pt) == pt[1] * pt[2]
      XX(pt) == pt[1] * pt[1]
  IN  RoundDiv((n * SumOver(data_points, XY, 1)
                  - SumOver(data_points, X, 1) * SumOver(data_points, Y, 1)) * 10000,
               n * SumOver(data_points, XX, 1)
                  - SumOver(data_points, X, 1) * SumOver(data_points, X, 1))

\* C25: for every input with at least two distinct timestamps the slope
\* calculate_trend reports equals the ordinary least-squares slope of value
\* on time; the points (0 h, 0) and (2 h, 4) give slope 2 per hour.
C25_SlopeIsLeastSquares ==
  (result.fn = "calculate_trend" /\ DistinctTimes(call.data_points)) =>
    /\ "raised" \notin DOMAIN result.ret
    /\ result.ret.slope = LeastSquaresSlope(call.data_points)
    /\ call.data_points \in {<<(<<0, 0>>), (<<2, 4>>)>>, <<(<<2, 4>>), (<<0, 0>>)>>} =>
         result.ret.slope = 20000

\* C30: calculate_trend classifies every series of two or more points at
\* distinct times whose values are all equal as direction 'stable' with
\* slope 0, for every constant value, 0 included.
C30_ConstantSeriesStable ==
  (/\ result.fn = "calculate_trend"
   /\ Len(call.data_points) >= 2
   /\ \A i, j \in 1..Len(call.data_points) :
        /\ call.data_points[i][2] = call.data_points[j][2]
        /\ i # j => call.data_points[i][1] # call.data_points[j][1]) =>
    /\ "raised" \notin DOMAIN result.ret
    /\ result.ret.direction = "stable"
    /\ result.ret.slope = 0

(***************************************************************************)
(* Further properties of the handlers, on Spec                             *)
(***************************************************************************)
\* The status codes evaluate_plant_status gives the plant a handler
\* enriched from the latest measurement; "none" for a metric not evaluated.
EvaluatedCodes(plant, measurements_week) ==
  LET smart_status ==
        evaluate_plant_status(EnrichedFromLatest(plant, measurements_week),
                              measurements_week, NoneDict)
  IN  [m \in Metrics |-> IF smart_status[m] = NoneDict THEN 2 ELSE smart_status[m].status]

\* C22: get_plants_needing_attention returns exactly the plants for which
\* at least one of temperature, light, moisture, nutrients has an evaluated
\* status different from 2, with one issue entry per non-optimal metric; a
\* plant with a metric at status 4 is included.
C22_AttentionListsEveryNonOptimal ==
  (reply.op = "get_plants_needing_attention" /\ upstream.response # NoneDict) =>
    LET codes == EvaluatedCodes(upstream.plant, upstream.response)
        off == { m \in Metrics : codes[m] # 2 }
    IN  /\ reply.out.listed <=> off # {}
        /\ Len(reply.out.issues) = Cardinality(off)

\* C27: with a resolvable threshold set handle_diagnose_plant returns a
\* health report (health critical, poor, fair, good or excellent), not an
\* error payload, for every combination of evaluated status codes in
\* {1, 2, 3, 4}; a metric evaluated as 4 appears as an issue of the report.
C27_DiagnoseReportsEveryCode ==
  (/\ reply.op = "diagnose_plant"
   /\ upstream.plant # NoneDict
   /\ ResolveThresholds(upstream.plant, upstream.response) # NoneDict) =>
    LET smart_status ==
          evaluate_plant_status(DiagnoseEnriched(upstream.plant, upstream.response),
                                upstream.response, NoneDict)
    IN  /\ reply.out.kind = "report"
        /\ reply.out.health \in {"critical", "poor", "fair", "good", "excellent"}
        /\ \A m \in Metrics :
             (smart_status[m] # NoneDict /\ smart_status[m].status = 4) =>
               \E i \in 1..Len(reply.out.issueDetails) :
                 reply.out.issueDetails[i].parameter = m

\* C28: for a plant whose smart-evaluated moisture is below
\* moisture_min_acceptable (status 4) handle_get_plant_events emits a
\* critical_moisture event, and for a plant whose temperature is above
\* temperature_max_acceptable (status 4) it emits a temperature_extreme
\* event, as it does for status 1 and status 3 respectively.
C28_AcceptableBoundKeepsAlert ==
  reply.op = "get_plant_events" =>
    LET smart_status ==
          evaluate_plant_status(EnrichedFromLatest(upstream.plant, upstream.response),
                                upstream.response, NoneDict)
        Emitted(event_type) ==
          \E i \in 1..Len(reply.out.events) : reply.out.events[i].event_type = event_type
        Named(m, names) ==
          /\ ~smart_status.use_fyta_status
          /\ smart_status[m] # NoneDict
          /\ smart_status[m].status_name \in names
    IN  /\ Named("moisture", {"low", "critical_low"}) => Emitted("critical_moisture")
        /\ Named("temperature", {"high", "critical_high"}) => Emitted("temperature_extreme")

\* C29: every tool name advertised by get_tool_definitions is routed by
\* handle_tool_call to a registered handler: no advertised tool is answered
\* with the 'Unknown tool' text.
C29_AdvertisedToolsRouted ==
  (result.fn = "handle_tool_call" /\ call.name \in get_tool_definitions) =>
    /\ call.name \in TOOL_HANDLERS
    /\ result.ret.text # "Unknown tool"

(***************************************************************************)
(* handlers.py: the confidence score of handle_diagnose_plant (lines       *)
(* 1126-1163 and 1280).  last_update is plant.get("received_data_at"):     *)
(* missing, the empty string, a string fromisoformat rejects, or a         *)
(* timestamp minutes_ago minutes before now.  Factors are in 1/10, the     *)
(* confidence in 1/100.                                                    *)
(***************************************************************************)
\* The recency test with the branch over 48 hours tried first.
StalenessFactorOrdered(last_update) ==
  IF last_update.kind \in {"missing", "empty"} THEN 6
  ELSE IF last_update.kind = "unparsable" THEN 7
  ELSE IF last_update.minutes_ago > 48 * 60 THEN 6
  ELSE IF last_update.minutes_ago > 24 * 60 THEN 8
  ELSE 10

\* Lines 1137-1155: hours_ago > 24 is tested before hours_ago > 48.
StalenessFactor(last_update) ==
  IF last_update.kind \in {"missing", "empty"} THEN 6
  ELSE IF last_update.kind = "unparsable" THEN 7
  ELSE IF last_update.minutes_ago > 24 * 60 THEN 8
  ELSE IF last_update.minutes_ago > 48 * 60 THEN 6
  ELSE 10

\* Line 1280: round(confidence, 2) of confidence = thousandths / 1000.  The
\* products that end in 5 thousandths, 0.385 and 0.315, are floats that
\* round up.
RoundConfidence(thousandths) == (thousandths + 5) \div 10

DiagnoseConfidence(sensor, last_update, measurements_week) ==
  LET has_sensor == sensor # NoneDict /\ Truthy(Get(sensor.has_sensor))
      sensor_factor == IF has_sensor THEN 10 ELSE 5
      staleness == StalenessFactor(last_update)
      \* 1.0 * sensor_factor/10 * staleness/10, in 1/1000
      recent == sensor_factor * staleness * 10
      confidence ==
        IF measurements_week # NoneDict
          THEN (IF recent * 11 > 10000 THEN 1000 ELSE (recent * 11) \div 10)
          ELSE (recent * 9) \div 10
  IN  [confidence |-> RoundConfidence(confidence), staleness |-> staleness,
       sensor_factor |-> sensor_factor]

(***************************************************************************)
(* SpecConfidence: the confidence score for every sensor entry, every kind *)
(* of last update and age around the 24 and 48 hour marks, with and        *)
(* without a measurement response.                                         *)
(***************************************************************************)
ConfidenceSensors ==
  {NoneDict} \cup
  { [has_sensor |-> h, sensor_type_id |-> 2, battery_level |-> 80] : h \in {Absent, 0, 1} }

LastUpdates ==
  { [kind |-> k] : k \in {"missing", "empty", "unparsable"} } \cup
  { [kind |-> "parsed", minutes_ago |-> m] :
      m \in {0, 24 * 60, 24 * 60 + 1, 36 * 60, 48 * 60, 48 * 60 + 1, 72 * 60} }

InitConfidence ==
  /\ \E sensor \in ConfidenceSensors, last_update \in LastUpdates,
        measurements_week \in {NoneDict, BlankResponse} :
       call = [fn |-> "diagnose_confidence", sensor |-> sensor, last_update |-> last_update,
               measurements_week |-> measurements_week]
  /\ result = NoCall
  /\ HandlersIdle

ScoreConfidence ==
  /\ call.fn = "diagnose_confidence"
  /\ result = NoCall
  /\ result' = [fn |-> call.fn,
                ret |-> DiagnoseConfidence(call.sensor, call.last_update,
                                           call.measurements_week)]
  /\ UNCHANGED <<call, upstream, reply, stores>>

NextConfidence == ScoreConfidence

SpecConfidence == InitConfidence /\ [][NextConfidence]_vars

\* C26: in the confidence computation of handle_diagnose_plant the larger
\* staleness discount is unreachable: for every parsable last-update age
\* above 24 hours, ages above 48 hours included, the staleness factor
\* applied is 0.8, never the 0.6 of the over-48-hours branch; and the
\* reported confidence is always greater than 0 and at most 1.0.
C26_LargerDiscountUnreachable ==
  result.fn = "diagnose_confidence" =>
    /\ (call.last_update.kind = "parsed" /\ call.last_update.minutes_ago > 24 * 60) =>
         /\ result.ret.staleness = 8
         /\ result.ret.confidence =
              RoundConfidence(
                IF call.measurements_week # NoneDict
                  THEN result.ret.sensor_factor * 88
                  ELSE result.ret.sensor_factor * 72)
    /\ result.ret.confidence > 0
    /\ result.ret.confidence <= 100

\* A last update more than 48 hours old, discounted by 0.8.
C26_Witness ==
  /\ result.fn = "diagnose_confidence"
  /\ call.last_update.kind = "parsed"
  /\ call.last_update.minutes_ago > 48 * 60
  /\ result.ret.staleness = 8

(***************************************************************************)
(* SpecCareStore: CareActionStore.log_action called by two callers sharing *)
(* one storage file (utils/care_actions.py).  A call is two steps, the     *)
(* read of _load_actions and the write of _save_actions; the file can      *)
(* become unreadable (read_text or json.loads raises) and is whole again   *)
(* after the next write.  stores.logged lists the actions the completed    *)
(* calls returned.                                                         *)
(***************************************************************************)
MaxLogged == 3

Callers == {1, 2}

\* Lines 34-40: the stored list, [] when reading the file raises.
load_actions(file) == IF file.readable THEN file.actions ELSE <<>>

RECURSIVE NewestFirst(_)
NewestFirst(actions) ==
  IF actions = <<>> THEN <<>>
  ELSE <<actions[Len(actions)]>> \o NewestFirst(SubSeq(actions, 1, Len(actions) - 1))

\* Lines 108-120 with days = None; every stored list is in timestamp order.
get_all_actions(file) == NewestFirst(load_actions(file))

InitCareStore ==
  /\ stores = [file |-> [actions |-> <<>>, readable |-> TRUE], now |-> 0, logged |-> <<>>,
               pending |-> [c \in Callers |-> NoneDict]]
  /\ upstream = NoUpstream
  /\ reply = NoReply
  /\ PureIdle

CallsStarted ==
  Len(stores.logged) + Cardinality({c \in Callers : stores.pending[c] # NoneDict})

\* Line 57: actions = self._load_actions().
LoadActions ==
  /\ CallsStarted < MaxLogged
  /\ \E c \in Callers, action_type \in ActionTypes :
       /\ stores.pending[c] = NoneDict
       /\ stores' = [stores EXCEPT !.pending[c] =
                       [actions |-> load_actions(stores.file), plant_id |-> KnownPlantId,
                        action_type |-> action_type]]
  /\ UNCHANGED <<call, result, upstream, reply>>

\* Lines 59-71: the action is built, appended to the list read and the list
\* written back.
SaveActions ==
  /\ \E c \in Callers :
       /\ stores.pending[c] # NoneDict
       /\ LET now == stores.now + 1
              action == log_action(stores.pending[c].actions, stores.pending[c].plant_id,
                                   stores.pending[c].action_type, NoneDict, now)
          IN  stores' = [stores EXCEPT
                           !.file = [actions |-> Append(stores.pending[c].actions, action),
                                     readable |-> TRUE],
                           !.now = now,
                           !.logged = Append(@, action),
                           !.pending[c] = NoneDict]
  /\ UNCHANGED <<call, result, upstream, reply>>

\* The storage file becomes unreadable.
StorageUnreadable ==
  /\ stores.file.readable
  /\ stores' = [stores EXCEPT !.file.readable = FALSE]
  /\ UNCHANGED <<call, result, upstream, reply>>

NextCareStore == LoadActions \/ SaveActions \/ StorageUnreadable

SpecCareStore == InitCareStore /\ [][NextCareStore]_vars

\* C24: the care-action store is append-only: after any sequence of
\* log_action calls, two calls whose load and save steps interleave and a
\* call made while the storage file is unreadable included, every action
\* logged earlier is still returned by get_all_actions with unchanged
\* content, and no two stored actions have the same id.
C24_CareStoreAppendOnly ==
  ("file" \in DOMAIN stores /\ stores.file.readable) =>
    LET returned == get_all_actions(stores.file) IN
    /\ \A i \in 1..Len(stores.logged) :
         \E k \in 1..Len(returned) : returned[k] = stores.logged[i]
    /\ \A k, l \in 1..Len(returned) : returned[k].id = returned[l].id => k = l

(***************************************************************************)
(* handlers.py: the substrate the two sub-analyses of handle_diagnose_plant *)
(* are computed with (lines 1316-1340 and 1365-1390), and the optimal      *)
(* ranges get_ec_status (utils/fertilization.py, in 1/10 mS/cm) and        *)
(* get_moisture_status (utils/watering.py) take from it.                   *)
(***************************************************************************)
\* PlantContextStore.get_context: the stored dict, None when there is none.
get_context(contexts, plant_id) == contexts[plant_id]

\* dict.get(key) on a stored context, None on a missing context.
ContextGet(context, key) ==
  IF context = NoneDict THEN None
  ELSE IF key \in DOMAIN context THEN Get(context[key])
  ELSE None

\* fertilization.py lines 40-49.
ECOptimalRange(substrate_type) ==
  IF substrate_type = Organic THEN <<8, 12>> ELSE <<6, 10>>

\* watering.py lines 24-33.
MoistureOptimalRange(substrate_type) ==
  IF substrate_type = Organic THEN <<40, 70>>
  ELSE IF substrate_type = Mineral THEN <<30, 60>>
  ELSE <<30, 70>>

\* Lines 1320-1321 and 1333-1339.
FertilizationSubAnalysis(contexts, plant_id) ==
  LET context == get_context(contexts, plant_id)
      substrate_type == ContextGet(context, "substrate")
  IN  [substrate_type |-> substrate_type, optimal_range |-> ECOptimalRange(substrate_type),
       \* fertilization.py lines 369-377
       substrate_note |-> substrate_type \in {Mineral, Organic}]

\* Lines 1369-1370 and 1384-1389.
WateringSubAnalysis(contexts, plant_id) ==
  LET context == get_context(contexts, plant_id)
      substrate_type == ContextGet(context, "substrate_type")
  IN  [substrate_type |-> substrate_type,
       optimal_range |-> MoistureOptimalRange(substrate_type),
       \* watering.py lines 335-339
       substrate_note |-> substrate_type = Organic]

(***************************************************************************)
(* SpecSubstrate: set_plant_context and diagnose_plant called one after    *)
(* another, up to MaxCalls calls; the diagnosed plant has a latest         *)
(* measurement with soil_fertility and soil_moisture, so both sub-analyses *)
(* run.                                                                    *)
(***************************************************************************)
DiagnoseWithContext ==
  /\ stores.now < MaxCalls
  /\ \E plant_id \in PlantIds :
       LET now == stores.now + 1 IN
       /\ reply' =
            [op |-> "diagnose_plant", plant_id |-> plant_id, at |-> now,
             out |-> IF ~PlantExists(plant_id) THEN [kind |-> "not_found"]
                     ELSE [kind |-> "report",
                           fertilization |-> FertilizationSubAnalysis(stores.contexts, plant_id),
                           watering |-> WateringSubAnalysis(stores.contexts, plant_id)]]
       /\ stores' = [stores EXCEPT !.now = now]
  /\ UNCHANGED <<call, result, upstream>>

NextSubstrate == SetPlantContext \/ DiagnoseWithContext

SpecSubstrate == InitStores /\ [][NextSubstrate]_vars

\* C23: after set_plant_context stores a substrate S for a plant, a later
\* diagnose_plant of that plant computes both its fertilization and its
\* watering sub-recommendation with substrate S (the substrate-specific
\* optimal band and substrate note), until another set_plant_context
\* changes the substrate.
C23_SubstrateReachesBothAnalyses ==
  (/\ reply.op = "diagnose_plant"
   /\ reply.out.kind = "report"
   /\ stores.contexts[reply.plant_id] # NoneDict
   /\ stores.contexts[reply.plant_id]["substrate"] # Absent) =>
    LET S == stores.contexts[reply.plant_id]["substrate"] IN
    /\ reply.out.fertilization.substrate_type = S
    /\ reply.out.fertilization.optimal_range = ECOptimalRange(S)
    /\ reply.out.watering.substrate_type = S
    /\ reply.out.watering.optimal_range = MoistureOptimalRange(S)

(***************************************************************************)
(* SpecEventPolls: get_plant_events polled up to MaxEventPolls times for   *)
(* one plant whose data changes freely between polls.  reply.polls has one *)
(* row per poll: the plant and measurement response of that poll, the      *)
(* plant handed to the detectors and the handler's answer.                 *)
(***************************************************************************)
MaxEventPolls == 3

\* The plant at a poll: its FYTA codes, its connection, its battery.
PolledPlants ==
  { PlantOf(snapshot, device) @@ ("wifi_status" :> wifi) :
      snapshot \in Snapshots \ {[f \in ValueFields \cup StatusFields |-> Absent]},
      device \in {d \in Devices : d[1] # NoneDict /\ d[2] \in {30, 100}},
      wifi \in {0, 1} }

\* No threshold set and no record, or the standard set and a dry reading.
PolledResponses ==
  {BlankResponse,
   [ResponseWith(StandardThresholds) EXCEPT !.measurements = <<Reading(13, 30, 10, 2)>>]}

InitEventPolls ==
  /\ upstream = NoUpstream
  /\ reply = [op |-> "poll", polls |-> <<>>]
  /\ stores = NoStores
  /\ PureIdle

PollPlantEvents ==
  /\ reply.op = "poll"
  /\ Len(reply.polls) < MaxEventPolls
  /\ \E plant \in PolledPlants, response \in PolledResponses :
       /\ upstream' = Upstream(plant, response)
       /\ reply' = [reply EXCEPT !.polls =
            Append(@, [plant |-> plant, response |-> response,
                       enriched_plant |-> EnrichedEventPlant(plant, response),
                       out |-> PlantEventsAfter(plant, response, reply.polls)])]
  /\ UNCHANGED <<call, result, stores>>

NextEventPolls == PollPlantEvents

SpecEventPolls == InitEventPolls /\ [][NextEventPolls]_vars

EventTypes(out) == { out.events[i].event_type : i \in 1..Len(out.events) }

====
